---- MODULE Spec2Model ----
(***************************************************************************)
(* A model of the SmartThingsAPI gateway (src/app): the two tables, the    *)
(* API-key gate, credential resolution with token auto-refresh, the        *)
(* upstream REST client, the exception handlers and the envelope           *)
(* middleware.  One action is one HTTP request handled end to end; a       *)
(* device request is two: its dependencies, then the route function.       *)
(*                                                                         *)
(* Values.  An optional value is a sequence: <<>> is None, <<x>> is x.     *)
(* A JSON value is a tagged tuple:                                         *)
(*   <<"null">>  <<"bool", b>>  <<"num", n>>  <<"str", s>>  <<"list", n>>  *)
(*   <<"dict", f>>  with f a function from keys to JSON values.            *)
(* A response body is <<"json", v>> (bytes that json.loads parses to v),   *)
(* <<"text", s>> (bytes that are not JSON) or <<"empty">> (no bytes).      *)
(***************************************************************************)
EXTENDS Integers, Sequences, FiniteSets, TLC

VARIABLES settings, users, tokens, now, ev

vars == <<settings, users, tokens, now, ev>>

----------------------------------------------------------------------------
(* Bounds of the model *)

MaxUsers == 2
MaxNow == 30
TickStep == 30

(* Program constants *)

RefreshSkew == 60

----------------------------------------------------------------------------
(* Optional values and Python truthiness *)

None == <<>>

Some(x) == <<x>>

IsNone(o) == o = <<>>

\* `if x:` for an Optional[str]: neither None nor the empty string
Truthy(o) == o # <<>> /\ o[1] # ""

\* `a or b` for Optional[str]
OrElse(a, b) == IF Truthy(a) THEN a ELSE b

----------------------------------------------------------------------------
(* JSON values *)

JNull == <<"null">>

JNum(n) == <<"num", n>>

JStr(s) == <<"str", s>>

JDict(f) == <<"dict", f>>

IsDict(v) == v[1] = "dict"

HasKey(v, k) == IsDict(v) /\ k \in DOMAIN v[2]

\* dict.get(k): the value, or None (JSON null) when the key is absent
Get(v, k) == IF HasKey(v, k) THEN v[2][k] ELSE JNull

Envelope(code, msg, data) ==
    JDict([code |-> JNum(code), msg |-> JStr(msg), data |-> data])

\* Python truthiness of a JSON value (None, "", 0, {} and [] are false)
JTruthy(v) ==
    CASE v[1] = "null" -> FALSE
      [] v[1] = "str"  -> v[2] # ""
      [] v[1] = "num"  -> v[2] # 0
      [] v[1] = "list" -> v[2] # 0
      [] v[1] = "dict" -> DOMAIN v[2] # {}

\* `a or b` for JSON values
JOr(a, b) == IF JTruthy(a) THEN a ELSE b

\* int(v) succeeds on a number and on a string of digits
DigitStrings == [s \in {"400", "401", "502"} |->
                   CASE s = "400" -> 400 [] s = "401" -> 401 [] s = "502" -> 502]

IntOk(v) == v[1] = "num" \/ (v[1] = "str" /\ v[2] \in DOMAIN DigitStrings)

IntOf(v) == IF v[1] = "num" THEN v[2] ELSE DigitStrings[v[2]]

\* str(v): a string is itself; the text of anything else is not modelled
\* character by character
StrOf(v) ==
    CASE v[1] = "str"  -> v[2]
      [] v[1] = "null" -> "None"
      [] v[1] = "num"  -> "<number>"
      [] v[1] = "list" -> "<list>"
      [] v[1] = "dict" -> "<dict>"

----------------------------------------------------------------------------
(* Responses.  ctype is the content-type header as a sequence of chunks    *)
(* (<<>> when the header is absent), path a sequence of chunks, so that    *)
(* `x in content_type` and `path.startswith(p)` are computed, not assumed. *)

CtJson == <<"application/json">>

CtHtml == <<"text/html", "; charset=utf-8">>

CtNone == <<>>

NoLocation == <<>>

JSONResponse(status, v) ==
    [status |-> status, ctype |-> CtJson, body |-> <<"json", v>>, loc |-> NoLocation]

RedirectResponse(loc) ==
    [status |-> 302, ctype |-> CtNone, body |-> <<"empty">>, loc |-> loc]

HTMLResponse(status, text) ==
    [status |-> status, ctype |-> CtHtml, body |-> <<"text", text>>, loc |-> NoLocation]

Contains(seq, x) == \E i \in DOMAIN seq : seq[i] = x

StartsWith(seq, p) == Len(p) <= Len(seq) /\ SubSeq(seq, 1, Len(p)) = p

----------------------------------------------------------------------------
(* src/app/envelope.py *)

\* an envelope test that looks for the key `message` where the code looks for `msg`
is_enveloped_message(payload) ==
    IsDict(payload) /\ HasKey(payload, "code") /\ HasKey(payload, "message")
                    /\ HasKey(payload, "data")

is_enveloped(payload) ==
    IsDict(payload) /\ HasKey(payload, "code") /\ HasKey(payload, "msg")
                    /\ HasKey(payload, "data")

\* the excluded prefixes without the webhook's
exclude_prefixes_docs_only == { <<"/docs">>, <<"/redoc">>, <<"/openapi.json">> }

\* the excluded prefixes with the liveness route added
exclude_prefixes_with_health ==
    { <<"/docs">>, <<"/redoc">>, <<"/openapi.json">>, <<"/smartthings", "/smartapp">>,
      <<"/health">> }

exclude_prefixes ==
    { <<"/docs">>, <<"/redoc">>, <<"/openapi.json">>, <<"/smartthings", "/smartapp">> }

SkipStatuses == {301, 302, 303, 307, 308, 204}

\* a wrapping step that reports the HTTP status as the code of a success
Wrap_status_code(status, payload) ==
    IF is_enveloped(payload) THEN payload
    ELSE IF status < 400 THEN Envelope(status, "", payload)
    ELSE Envelope(200, "Request failed", payload)

\* the wrapping step of dispatch, on a parsed payload
Wrap(status, payload) ==
    IF is_enveloped(payload) THEN payload
    ELSE IF status < 400 THEN Envelope(200, "", payload)
    ELSE Envelope(status, "Request failed", payload)

\* a dispatch that forgets the excluded prefixes
dispatch_no_exclusions(path, r) ==
    IF r.status \in SkipStatuses THEN r
    ELSE IF ~Contains(r.ctype, "application/json") THEN r
    ELSE IF r.body[1] = "text" THEN r
    ELSE LET payload == IF r.body[1] = "empty" THEN JNull ELSE r.body[2]
         IN  [r EXCEPT !.body = <<"json", Wrap(r.status, payload)>>]

\* EnvelopeMiddleware.dispatch applied to the response r of call_next
dispatch(path, r) ==
    IF \E p \in exclude_prefixes : StartsWith(path, p) THEN r
    ELSE IF r.status \in SkipStatuses THEN r
    ELSE IF ~Contains(r.ctype, "application/json") THEN r
    ELSE IF r.body[1] = "text" THEN r
    ELSE LET payload == IF r.body[1] = "empty" THEN JNull ELSE r.body[2]
         IN  [r EXCEPT !.body = <<"json", Wrap(r.status, payload)>>]

----------------------------------------------------------------------------
(* src/app/main.py: the exception handlers *)

\* UpstreamHTTPError(status_code, message, details)
\* a handler that answers every upstream error as 502
upstream_http_error_handler_502(exc) ==
    JSONResponse(502, Envelope(502, exc.message, exc.details))

upstream_http_error_handler(exc) ==
    LET status == IF exc.status_code # 0 THEN exc.status_code ELSE 502
    IN  JSONResponse(status, Envelope(status, exc.message, exc.details))

unhandled_exception_handler(text) ==
    JSONResponse(500, Envelope(500, "Internal Server Error",
        IF settings.app_env # "prod" THEN JDict([error |-> JStr(text)]) ELSE JNull))

\* HTTPException(status_code, detail); an int() that raises inside the
\* handler is an unhandled failure
http_exception_handler(status, detail) ==
    IF IsDict(detail)
    THEN IF HasKey(detail, "code") /\ HasKey(detail, "msg") /\ HasKey(detail, "data")
         THEN IF IntOk(detail[2]["code"])
              THEN JSONResponse(status,
                     Envelope(IntOf(detail[2]["code"]), StrOf(detail[2]["msg"]),
                              Get(detail, "data")))
              ELSE unhandled_exception_handler("invalid literal for int()")
         ELSE LET code == IF HasKey(detail, "code") THEN detail[2]["code"] ELSE JNum(status)
                  msg  == JOr(JOr(Get(detail, "msg"), Get(detail, "message")),
                              JStr("Request failed"))
                  data == IF HasKey(detail, "data") THEN Get(detail, "data")
                          ELSE Get(detail, "details")
              IN  IF IntOk(code)
                  THEN JSONResponse(status, Envelope(IntOf(code), StrOf(msg), data))
                  ELSE unhandled_exception_handler("invalid literal for int()")
    ELSE JSONResponse(status, Envelope(status, StrOf(detail), JNull))

\* a validation handler that answers the bare list of errors
validation_exception_handler_bare(errors) == JSONResponse(422, errors)

validation_exception_handler(errors) ==
    JSONResponse(422, Envelope(422, "Request validation failed", errors))

----------------------------------------------------------------------------
(* src/app/config.py, src/app/models.py, src/app/security.py *)

\* Settings(): every optional field is None or set; loaded once
MkSettings(env, tok, cid, sec, red) ==
    [app_env |-> env, smartthings_token |-> tok, smartthings_client_id |-> cid,
     smartthings_client_secret |-> sec, smartthings_redirect_uri |-> red]

SettingsSet ==
    { MkSettings("dev", Some("PAT"), Some("cid"), Some("secret"), Some("https://gw/cb")),
      MkSettings("dev", None, Some("cid"), Some("secret"), Some("https://gw/cb")),
      MkSettings("dev", Some("PAT"), None, None, None),
      MkSettings("prod", None, Some("cid"), None, Some("https://gw/cb")) }

\* hashlib.sha256(pepper + ":" + api_key): deterministic and, on the keys of
\* the model, injective
hash_api_key(api_key) == <<"sha256", "change-me", api_key>>

\* rows of the users table: [id, email, api_key_hash]
\* rows of the smartthings_tokens table:
\*   [user_id, access_token, refresh_token, token_type, scope, expires_at]
StoredToken(uid, at, rt, tt, sc, exp) ==
    [user_id |-> uid, access_token |-> at, refresh_token |-> rt,
     token_type |-> tt, scope |-> sc, expires_at |-> exp]

\* query(...).filter(...).one_or_none(): None or the single matching row
OneOrNone(rows) == IF rows = {} THEN None ELSE Some(CHOOSE r \in rows : TRUE)

\* a gate that lets any non-empty key through as the first user there is
get_current_user_any_key(x_api_key) ==
    IF ~Truthy(x_api_key) \/ users = {}
    THEN [ok |-> FALSE, status |-> 401, detail |-> JStr("Missing X-API-Key"), user |-> None]
    ELSE [ok |-> TRUE, status |-> 200, detail |-> JNull, user |-> OneOrNone(users)]

\* get_current_user: the user of a presented key, or the 401 outcome
get_current_user(x_api_key) ==
    IF ~Truthy(x_api_key)
    THEN [ok |-> FALSE, status |-> 401, detail |-> JStr("Missing X-API-Key"), user |-> None]
    ELSE LET user == OneOrNone({u \in users : u.api_key_hash = hash_api_key(x_api_key[1])})
         IN  IF IsNone(user)
             THEN [ok |-> FALSE, status |-> 401, detail |-> JStr("Invalid X-API-Key"),
                   user |-> None]
             ELSE [ok |-> TRUE, status |-> 200, detail |-> JNull, user |-> user]

----------------------------------------------------------------------------
(* src/app/smartthings_oauth_client.py *)

\* A reply of the token endpoint: a transport failure, or a status and a body
TransportFailure == [kind |-> "transport", status |-> 0, body |-> <<"empty">>]

HttpReply(status, body) == [kind |-> "http", status |-> status, body |-> body]

\* no reply was consumed
NoReply == [kind |-> "none", status |-> 0, body |-> <<"empty">>]

\* refresh_access_token(refresh_token) against the reply rr of the endpoint:
\* the raised exception (exc) or the returned JSON (value), and the number
\* of POSTs made
refresh_access_token(refresh_token, rr) ==
    IF ~Truthy(settings.smartthings_client_id) \/ ~Truthy(settings.smartthings_client_secret)
    THEN [exc |-> "SmartThingsOAuthNotConfigured", posts |-> 0, value |-> JNull]
    ELSE IF rr.kind = "transport"
    THEN [exc |-> "RequestException", posts |-> 1, value |-> JNull]
    ELSE IF 400 <= rr.status /\ rr.status < 600
    THEN [exc |-> "HTTPError", posts |-> 1, value |-> JNull]
    ELSE IF rr.body[1] # "json"
    THEN [exc |-> "ValueError", posts |-> 1, value |-> JNull]
    ELSE [exc |-> "none", posts |-> 1, value |-> rr.body[2]]

\* compute_expires_at(expires_in): now + expires_in for a positive number
\* a compute_expires_at that forgets to add the lifetime
compute_expires_at_now(expires_in) ==
    IF expires_in[1] = "num" /\ expires_in[2] > 0 THEN Some(now) ELSE None

compute_expires_at(expires_in) ==
    IF expires_in[1] = "num" /\ expires_in[2] > 0 THEN Some(now + expires_in[2]) ELSE None

----------------------------------------------------------------------------
(* src/app/deps.py *)

\* str.lower() and str.strip() on the chunks the model's headers are made of
Lower(s) == CASE s = "Bearer" -> "bearer" [] s = "BEARER" -> "bearer" [] OTHER -> s

Strip(s) == CASE s = " A " -> "A" [] s = "  " -> "" [] s = " P " -> "P" [] OTHER -> s

\* A request's headers: authorization is None or the chunks of its value,
\* e.g. <<"Bearer", " ", "A">>; the other two are None or the value
Headers(auth, xst, key) ==
    [authorization |-> auth, x_smartthings_token |-> xst, x_api_key |-> key]

_get_token_from_headers(h) ==
    LET auth == h.authorization
        bearer == /\ auth # None
                  /\ Len(auth[1]) >= 2
                  /\ Lower(auth[1][1]) = "bearer"
                  /\ auth[1][2] = " "
        token == IF bearer /\ Len(auth[1]) >= 3 THEN Strip(auth[1][3]) ELSE ""
    IN  IF bearer /\ token # "" THEN Some(token)
        ELSE IF Truthy(h.x_smartthings_token) THEN Some(Strip(h.x_smartthings_token[1]))
        ELSE None

\* outcomes of get_smartthings_client: a client built on a token, or a raised
\* HTTPException; posts counts the POSTs to the token endpoint, db is the
\* tokens table as committed when the dependency returns
ClientOutcome(token, posts, db) ==
    [kind |-> "client", token |-> token, status |-> 200, detail |-> JNull,
     posts |-> posts, db |-> db]

\* a failure that drops the stored tokens on its way out
RaiseOutcome_drops(status, msg, data, posts) ==
    [kind |-> "HTTPException", token |-> "", status |-> status,
     detail |-> Envelope(status, msg, data), posts |-> posts, db |-> {}]

RaiseOutcome(status, msg, data, posts) ==
    [kind |-> "HTTPException", token |-> "", status |-> status,
     detail |-> Envelope(status, msg, data), posts |-> posts, db |-> tokens]

\* the text of a JSON string field of the token response, or the stored value
\* (`token_json.get(k) or st.k`)
FieldOr(token_json, k, old) ==
    IF JTruthy(Get(token_json, k)) THEN Get(token_json, k)[2] ELSE old

\* a refresh that takes every field from the response, supplied or not
Refreshed_unconditional(st, token_json) ==
    [st EXCEPT !.access_token  = FieldOr(token_json, "access_token", ""),
               !.refresh_token = FieldOr(token_json, "refresh_token", ""),
               !.token_type    = FieldOr(token_json, "token_type", ""),
               !.scope         = FieldOr(token_json, "scope", ""),
               !.expires_at    = compute_expires_at(Get(token_json, "expires_in"))]

\* lines 76-87: the record after a successful refresh
Refreshed(st, token_json) ==
    [st EXCEPT !.access_token  = FieldOr(token_json, "access_token", st.access_token),
               !.refresh_token = FieldOr(token_json, "refresh_token", st.refresh_token),
               !.token_type    = FieldOr(token_json, "token_type", st.token_type),
               !.scope         = FieldOr(token_json, "scope", st.scope),
               !.expires_at    =
                   IF compute_expires_at(Get(token_json, "expires_in")) # None
                   THEN compute_expires_at(Get(token_json, "expires_in"))
                   ELSE st.expires_at]

\* lines 88-126: the HTTPException a failed refresh is mapped to
RefreshFailure(r, rr) ==
    LET upstream == IF rr.body[1] = "json" THEN rr.body[2]
                    ELSE IF rr.body[1] = "text" THEN JStr(rr.body[2]) ELSE JStr("")
        data == JDict([upstream_status |-> JNum(rr.status), upstream |-> upstream])
    IN  IF r.exc = "HTTPError"
        THEN IF 400 <= rr.status /\ rr.status < 500
             THEN RaiseOutcome(401,
                    "Failed to refresh SmartThings token. User must re-authorize.",
                    data, r.posts)
             ELSE RaiseOutcome(502,
                    "SmartThings token endpoint error while refreshing token.",
                    data, r.posts)
        ELSE RaiseOutcome(502,
               "Failed to refresh SmartThings token due to network/unknown error.",
               JDict([error |-> JStr(r.exc)]), r.posts)

\* a refresh window that opens one second late
RefreshDue_late(st) == st.expires_at # None /\ now > st.expires_at[1] - RefreshSkew

\* line 66: the stored token is inside the refresh window
RefreshDue(st) == st.expires_at # None /\ now >= st.expires_at[1] - RefreshSkew

\* a stored-token path that refreshes without looking at refresh_token
StoredTokenPath_unchecked(st, rr) ==
    IF RefreshDue(st)
    THEN LET r == refresh_access_token(st.refresh_token, rr)
         IN  IF r.exc # "none" THEN RefreshFailure(r, rr)
             ELSE IF ~IsDict(r.value)
             THEN RefreshFailure([r EXCEPT !.exc = "AttributeError"], rr)
             ELSE LET st2 == Refreshed(st, r.value)
                  IN  ClientOutcome(st2.access_token, r.posts, (tokens \ {st}) \cup {st2})
    ELSE ClientOutcome(st.access_token, 0, tokens)

\* lines 59-131: the stored token st of the resolved user is used
StoredTokenPath(st, rr) ==
    IF RefreshDue(st)
    THEN IF st.refresh_token = ""
         THEN RaiseOutcome(401,
                "SmartThings token expired and no refresh_token is stored. Re-authorize via /oauth/smartthings/authorize.",
                JDict([reason |-> JStr("missing_refresh_token")]), 0)
         ELSE LET r == refresh_access_token(st.refresh_token, rr)
              IN  IF r.exc # "none" THEN RefreshFailure(r, rr)
                  ELSE IF ~IsDict(r.value)
                  THEN RefreshFailure([r EXCEPT !.exc = "AttributeError"], rr)
                  ELSE LET st2 == Refreshed(st, r.value)
                       IN  ClientOutcome(st2.access_token, r.posts,
                                         (tokens \ {st}) \cup {st2})
    ELSE ClientOutcome(st.access_token, 0, tokens)

\* a resolution that prefers the stored token to the headers
get_smartthings_client_stored_first(h, rr) ==
    LET token == _get_token_from_headers(h)
        user == IF Truthy(h.x_api_key)
                THEN OneOrNone({u \in users : u.api_key_hash = hash_api_key(h.x_api_key[1])})
                ELSE None
        st == IF user # None
              THEN OneOrNone({t \in tokens : t.user_id = user[1].id})
              ELSE None
    IN  IF st # None /\ st[1].access_token # "" THEN StoredTokenPath(st[1], rr)
        ELSE IF Truthy(token) THEN ClientOutcome(token[1], 0, tokens)
        ELSE IF Truthy(settings.smartthings_token)
        THEN ClientOutcome(settings.smartthings_token[1], 0, tokens)
        ELSE RaiseOutcome(400,
               "Missing SmartThings token. Provide Authorization: Bearer <PAT>, or bind via OAuth (SaaS), or set SMARTTHINGS_TOKEN.",
               JNull, 0)

get_smartthings_client(h, rr) ==
    LET token == _get_token_from_headers(h)
        user == IF Truthy(h.x_api_key)
                THEN OneOrNone({u \in users : u.api_key_hash = hash_api_key(h.x_api_key[1])})
                ELSE None
        st == IF user # None
              THEN OneOrNone({t \in tokens : t.user_id = user[1].id})
              ELSE None
    IN  IF Truthy(token) THEN ClientOutcome(token[1], 0, tokens)
        ELSE IF st # None /\ st[1].access_token # "" THEN StoredTokenPath(st[1], rr)
        ELSE IF Truthy(settings.smartthings_token)
        THEN ClientOutcome(settings.smartthings_token[1], 0, tokens)
        ELSE RaiseOutcome(400,
               "Missing SmartThings token. Provide Authorization: Bearer <PAT>, or bind via OAuth (SaaS), or set SMARTTHINGS_TOKEN.",
               JNull, 0)

----------------------------------------------------------------------------
(* src/app/smartthings_client.py *)

\* f"SmartThings API error ({resp.status_code})" on the statuses of the model
ApiErrorMsg(status) ==
    CASE status = 301 -> "SmartThings API error (301)"
      [] status = 401 -> "SmartThings API error (401)"
      [] status = 404 -> "SmartThings API error (404)"
      [] status = 422 -> "SmartThings API error (422)"
      [] status = 500 -> "SmartThings API error (500)"
      [] OTHER -> "SmartThings API error (other)"

\* a _request that reports a transport failure as an internal error
_request_transport_500(ur) ==
    IF ur.kind = "transport"
    THEN [raised |-> TRUE, value |-> JNull,
          exc |-> [status_code |-> 500, message |-> "Failed to reach SmartThings API",
                   details |-> JStr("ConnectionError")]]
    ELSE IF 200 <= ur.status /\ ur.status < 300
    THEN [raised |-> FALSE,
          value |-> CASE ur.body[1] = "empty" -> JNull
                      [] ur.body[1] = "json" -> ur.body[2]
                      [] ur.body[1] = "text" -> JStr(ur.body[2]),
          exc |-> [status_code |-> 0, message |-> "", details |-> JNull]]
    ELSE [raised |-> TRUE, value |-> JNull,
          exc |-> [status_code |-> ur.status, message |-> ApiErrorMsg(ur.status),
                   details |-> CASE ur.body[1] = "json" -> ur.body[2]
                                 [] ur.body[1] = "text" -> JDict([raw |-> JStr(ur.body[2])])
                                 [] ur.body[1] = "empty" -> JDict([raw |-> JStr("")])]]

\* SmartThingsClient._request against the reply ur of the device API: the
\* returned value, or the raised UpstreamHTTPError
_request(ur) ==
    IF ur.kind = "transport"
    THEN [raised |-> TRUE, value |-> JNull,
          exc |-> [status_code |-> 502, message |-> "Failed to reach SmartThings API",
                   details |-> JStr("ConnectionError")]]
    ELSE IF 200 <= ur.status /\ ur.status < 300
    THEN [raised |-> FALSE,
          value |-> CASE ur.body[1] = "empty" -> JNull
                      [] ur.body[1] = "json" -> ur.body[2]
                      [] ur.body[1] = "text" -> JStr(ur.body[2]),
          exc |-> [status_code |-> 0, message |-> "", details |-> JNull]]
    ELSE [raised |-> TRUE, value |-> JNull,
          exc |-> [status_code |-> ur.status, message |-> ApiErrorMsg(ur.status),
                   details |-> CASE ur.body[1] = "json" -> ur.body[2]
                                 [] ur.body[1] = "text" -> JDict([raw |-> JStr(ur.body[2])])
                                 [] ur.body[1] = "empty" -> JDict([raw |-> JStr("")])]]

----------------------------------------------------------------------------
(* Inputs of the model: what callers and the upstream platform may send *)

AuthHeaders ==
    { None, Some(<<"Bearer", " ", "A">>), Some(<<"bearer", " ", " A ">>),
      Some(<<"Bearer", " ", "  ">>), Some(<<"Basic", " ", "A">>) }

XstHeaders == { None, Some("P"), Some("") }

ApiKeys == { None, Some("k1"), Some("k2"), Some("bad") }

TokenJson(f) == HttpReply(200, <<"json", JDict(f)>>)

RefreshReplies ==
    { TransportFailure,
      TokenJson([access_token |-> JStr("A2"), refresh_token |-> JStr("R2"),
                 token_type |-> JStr("bearer"), scope |-> JStr("s2"),
                 expires_in |-> JNum(120)]),
      TokenJson([access_token |-> JStr("A2")]),
      TokenJson([access_token |-> JStr("A2"), expires_in |-> JNum(45)]),
      TokenJson([refresh_token |-> JStr("R2")]),
      HttpReply(200, <<"text", "not json">>),
      HttpReply(200, <<"json", <<"list", 0>> >>),
      HttpReply(400, <<"json", JDict([error |-> JStr("invalid_grant")])>>),
      HttpReply(500, <<"text", "down">>),
      HttpReply(304, <<"empty">>),
      HttpReply(300, <<"json", JDict([access_token |-> JStr("A2")])>>) }

DeviceReplies ==
    { TransportFailure,
      HttpReply(200, <<"json", JDict([x |-> JNum(1)])>>),
      HttpReply(200, <<"json", Envelope(200, "", JDict([x |-> JNum(1)]))>>),
      HttpReply(200, <<"json", JDict([code |-> JNum(7), msg |-> JStr("m")])>>),
      HttpReply(200, <<"text", "pong">>),
      HttpReply(204, <<"empty">>),
      HttpReply(301, <<"empty">>),
      HttpReply(401, <<"json", JDict([error |-> JStr("unauthorized")])>>),
      HttpReply(404, <<"json", JDict([code |-> JStr("NotFound"), msg |-> JStr("m"),
                                      data |-> JNull])>>),
      HttpReply(422, <<"json", JDict([error |-> JStr("bad capability")])>>),
      HttpReply(500, <<"text", "oops">>) }

----------------------------------------------------------------------------
(* The state after construction.  create_all keeps the tables of an       *)
(* earlier run, so a user and a stored token may already be there.         *)

InitUser == [id |-> "u1", email |-> "a@x", api_key_hash |-> hash_api_key("k1")]

InitTokens ==
    { StoredToken("u1", "A1", "R1", "Bearer", "s1", Some(30)),
      StoredToken("u1", "A1", "", "Bearer", "", Some(30)),
      StoredToken("u1", "A1", "R1", "Bearer", "s1", None),
      StoredToken("u1", "A1", "R1", "Bearer", "s1", Some(90)) }

\* ev is the request being answered: its inputs, what its handler did and the
\* response on its way to the caller; Idle when no request is in flight
Idle == [op |-> "idle"]

Init ==
    /\ settings \in SettingsSet
    /\ \/ users = {} /\ tokens = {}
       \/ users = {InitUser} /\ tokens = {}
       \/ users = {InitUser} /\ \E t \in InitTokens : tokens = {t}
    /\ now = 0
    /\ ev = Idle

\* the response reaches the caller and the request is over
Deliver ==
    /\ ev.op \notin {"idle", "client"}
    /\ ev' = Idle
    /\ UNCHANGED <<settings, users, tokens, now>>

\* time passes between requests
Tick ==
    /\ ev = Idle
    /\ now + TickStep <= MaxNow
    /\ now' = now + TickStep
    /\ UNCHANGED <<settings, users, tokens, ev>>

----------------------------------------------------------------------------
(* src/app/routes/devices.py (and aircon.py, tv.py, auth.py): a route      *)
(* behind the API-key gate that resolves a client and calls the device API *)

DevicesPath == <<"/devices">>

\* a request answered through the middleware stack: inner is the response of
\* call_next, resp what EnvelopeMiddleware.dispatch returns for it
Answered(op, path, inner, more) ==
    [op |-> op, path |-> path, via |-> "envelope", inner |-> inner,
     resp |-> dispatch(path, inner)] @@ more

\* an exception no handler below the middleware caught: it passes through
\* dispatch, and the Exception handler answers outside the middleware
Crashed(op, path, text, more) ==
    [op |-> op, path |-> path, via |-> "server_error",
     inner |-> unhandled_exception_handler(text),
     resp |-> unhandled_exception_handler(text)] @@ more

\* the stored token of the user a key resolves to, None when there is none
StoredTokenOf(x_api_key) ==
    LET g == get_current_user(x_api_key)
    IN  IF g.ok THEN OneOrNone({t \in tokens : t.user_id = g.user[1].id}) ELSE None

\* the router's gate and get_smartthings_client are resolved before the
\* route function runs; a dependency that raises answers the request
ResolveClient(h, rr) ==
    LET gate == get_current_user(h.x_api_key)
        out == get_smartthings_client(h, rr)
        seen == [hdr |-> h, gate |-> gate.ok, rr |-> rr,
                 st0 |-> StoredTokenOf(h.x_api_key),
                 out |-> IF gate.ok
                         THEN [kind |-> out.kind, token |-> out.token,
                               status |-> out.status, posts |-> out.posts]
                         ELSE [kind |-> "none", token |-> "", status |-> 0, posts |-> 0]]
    IN  /\ ev = Idle
        /\ tokens' = IF gate.ok THEN out.db ELSE tokens
        /\ ev' = IF ~gate.ok
                 THEN Answered("device", DevicesPath,
                        http_exception_handler(gate.status, gate.detail),
                        seen @@ [ur |-> NoReply, calls |-> 0])
                 ELSE IF out.kind # "client"
                 THEN Answered("device", DevicesPath,
                        http_exception_handler(out.status, out.detail),
                        seen @@ [ur |-> NoReply, calls |-> 0])
                 ELSE [op |-> "client", path |-> DevicesPath] @@ seen
        /\ UNCHANGED <<settings, users, now>>

\* list_devices: client.list_devices() against the reply ur of the device API
list_devices(ur) ==
    LET res == _request(ur)
    IN  /\ ev.op = "client"
        /\ ev' = Answered("device", DevicesPath,
                   IF res.raised THEN upstream_http_error_handler(res.exc)
                   ELSE JSONResponse(200, res.value),
                   [gate |-> TRUE, out |-> ev.out, ur |-> ur, calls |-> 1])
        /\ UNCHANGED <<settings, users, tokens, now>>

----------------------------------------------------------------------------
(* src/app/oauth_state.py.  A state string is the sequence of its          *)
(* dot-separated parts; _b64url_encode(json.dumps(payload)) is             *)
(* <<"b64", payload>> and the HMAC of a part under a secret is             *)
(* <<"hmac", secret, part>>: both are injective, and a signature made      *)
(* under another secret differs.                                           *)

StateTtl == 900

oauth_state_secret == "change-me-too"

\* a signature that does not depend on what is signed
_sign_constant(payload_b64) == <<"hmac", oauth_state_secret, <<"b64", <<>> >> >>

_sign(payload_b64) == <<"hmac", oauth_state_secret, payload_b64>>

build_state(user_id, ttl_s, pkce_verifier) ==
    LET payload == [userId |-> user_id, exp |-> now + ttl_s, pkceVerifier |-> pkce_verifier]
        payload_b64 == <<"b64", payload>>
    IN  <<payload_b64, _sign(payload_b64)>>

\* a parse_state that does not compare the signature
parse_state_unsigned(state) ==
    IF Len(state) < 2 THEN [ok |-> FALSE, error |-> "Invalid state format"]
    ELSE LET payload == state[1][2]
         IN  IF payload.exp # 0 /\ now > payload.exp
             THEN [ok |-> FALSE, error |-> "State expired"]
             ELSE [ok |-> TRUE, error |-> "", payload |-> payload]

\* parse_state: the payload, or the ValueError raised
parse_state(state) ==
    IF Len(state) < 2 THEN [ok |-> FALSE, error |-> "Invalid state format"]
    ELSE LET payload_b64 == state[1]
             sig_b64 == IF Len(state) = 2 THEN state[2] ELSE <<"joined", Tail(state)>>
         IN  IF _sign(payload_b64) # sig_b64
             THEN [ok |-> FALSE, error |-> "Invalid state signature"]
             ELSE LET payload == payload_b64[2]
                  IN  IF payload.exp # 0 /\ now > payload.exp
                      THEN [ok |-> FALSE, error |-> "State expired"]
                      ELSE [ok |-> TRUE, error |-> "", payload |-> payload]

----------------------------------------------------------------------------
(* src/app/routes/users.py *)

SignupPath == <<"/users", "/signup">>

MePath == <<"/users", "/me">>

Emails == {"a@x", "b@x"}

\* uuid4() and secrets.token_urlsafe(32) never repeat: the next user gets
\* the first unused id and key of the model
UserIds == <<"u1", "u2", "u3">>

KeyOf(uid) == CASE uid = "u1" -> "k1" [] uid = "u2" -> "k2" [] OTHER -> "k3"

FreshUserId == UserIds[Cardinality(users) + 1]

\* a signup that does not look for the email first
signup_no_lookup(email) ==
    LET uid == FreshUserId
        user == [id |-> uid, email |-> email, api_key_hash |-> hash_api_key(KeyOf(uid))]
    IN  /\ ev = Idle
        /\ Cardinality(users) < MaxUsers
        /\ users' = users \cup {user}
        /\ ev' = Answered("signup", SignupPath,
                   JSONResponse(200, JDict([userId |-> JStr(uid),
                                            apiKey |-> JStr(KeyOf(uid))])),
                   [email |-> email, created |-> TRUE])
        /\ UNCHANGED <<settings, tokens, now>>

\* POST /users/signup with a body that names `email`; an email that EmailStr
\* rejects never reaches the handler
signup(email) ==
    LET existing == OneOrNone({u \in users : u.email = email})
        uid == FreshUserId
        user == [id |-> uid, email |-> email, api_key_hash |-> hash_api_key(KeyOf(uid))]
    IN  /\ ev = Idle
        /\ IF existing # None
           THEN /\ users' = users
                /\ ev' = Answered("signup", SignupPath,
                           http_exception_handler(409, JStr("Email already exists")),
                           [email |-> email, created |-> FALSE])
           ELSE /\ Cardinality(users) < MaxUsers
                /\ users' = users \cup {user}
                /\ ev' = Answered("signup", SignupPath,
                           JSONResponse(200, JDict([userId |-> JStr(uid),
                                                    apiKey |-> JStr(KeyOf(uid))])),
                           [email |-> email, created |-> TRUE])
        /\ UNCHANGED <<settings, tokens, now>>

\* GET /users/me
me(key) ==
    LET gate == get_current_user(key)
    IN  /\ ev = Idle
        /\ ev' = Answered("me", MePath,
                   IF gate.ok
                   THEN JSONResponse(200, JDict([userId |-> JStr(gate.user[1].id),
                                                 email |-> JStr(gate.user[1].email)]))
                   ELSE http_exception_handler(gate.status, gate.detail),
                   [key |-> key, gate |-> gate.ok])
        /\ UNCHANGED <<settings, users, tokens, now>>

----------------------------------------------------------------------------
(* src/app/main.py: the routes of create_app itself *)

HealthPath == <<"/health">>

\* GET /health
health ==
    /\ ev = Idle
    /\ ev' = Answered("health", HealthPath,
               JSONResponse(200, JDict([status |-> JStr("ok")])), <<>>)
    /\ UNCHANGED <<settings, users, tokens, now>>

\* the interactive docs and the OpenAPI document, served outside prod only;
\* a path no route matches is answered 404 {"detail": "Not Found"} by the
\* framework, below the middleware
NotFoundResponse == JSONResponse(404, JDict([detail |-> JStr("Not Found")]))

FrameworkPaths ==
    { <<"/docs">>, <<"/docs", "/oauth2-redirect">>, <<"/redoc">>, <<"/openapi.json">>,
      <<"/nope">>, <<"/smartthings", "/smartapp", "/x">> }

FrameworkRoute(path) ==
    LET served == settings.app_env # "prod"
        inner == CASE served /\ path \in { <<"/docs">>, <<"/docs", "/oauth2-redirect">>,
                                           <<"/redoc">> }
                        -> HTMLResponse(200, "<html>docs</html>")
                   [] served /\ path = <<"/openapi.json">>
                        -> JSONResponse(200, JDict([openapi |-> JStr("3.1.0")]))
                   [] OTHER -> NotFoundResponse
    IN  /\ ev = Idle
        /\ ev' = Answered("framework", path, inner, <<>>)
        /\ UNCHANGED <<settings, users, tokens, now>>

----------------------------------------------------------------------------
(* src/app/routes/smartapp.py *)

SmartappPath == <<"/smartthings", "/smartapp">>

WebhookBodies ==
    { <<"text", "not json">>,
      <<"json", <<"list", 0>> >>,
      <<"json", JDict([lifecycle |-> JStr("PING"),
                       pingData |-> JDict([challenge |-> JStr("abc")])])>>,
      <<"json", JDict([lifecycle |-> JStr("PING")])>>,
      <<"json", JDict([lifecycle |-> JStr("CONFIRMATION"),
                       confirmationData |->
                           JDict([confirmationUrl |-> JStr("https://st/confirm")])])>>,
      <<"json", JDict([lifecycle |-> JStr("CONFIRMATION")])>>,
      <<"json", JDict([lifecycle |-> JStr("INSTALL")])>>,
      <<"json", JDict(<<>>)>> }

ConfirmationReplies ==
    { TransportFailure, HttpReply(200, <<"empty">>), HttpReply(500, <<"text", "oops">>) }

\* a handler that calls back for every CONFIRMATION, with or without a URL
WebhookCallsBack_any_confirmation(body) ==
    /\ body[1] = "json" /\ IsDict(body[2])
    /\ Get(body[2], "lifecycle") = JStr("CONFIRMATION")

\* the handler reaches requests.get(confirmation_url)
WebhookCallsBack(body) ==
    /\ body[1] = "json" /\ IsDict(body[2])
    /\ Get(body[2], "lifecycle") = JStr("CONFIRMATION")
    /\ JTruthy(Get(JOr(Get(body[2], "confirmationData"), JDict(<<>>)), "confirmationUrl"))

\* POST /smartthings/smartapp with the reply cr of the confirmation URL
smartapp_webhook(body, cr) ==
    LET b == body[2]
        lifecycle == Get(b, "lifecycle")
        ping_data == JOr(Get(b, "pingData"), JDict(<<>>))
        challenge == Get(ping_data, "challenge")
        more == [body |-> body, cr |-> cr,
                 gets |-> IF WebhookCallsBack(body) THEN 1 ELSE 0]
    IN  /\ ev = Idle
        /\ ev' =
             IF body[1] # "json"
             THEN Answered("webhook", SmartappPath,
                    http_exception_handler(400, JStr("Invalid JSON body: <error>")), more)
             ELSE IF ~IsDict(b)
             THEN Crashed("webhook", SmartappPath, "AttributeError", more)
             ELSE IF lifecycle = JStr("PING")
             THEN IF ~JTruthy(challenge)
                  THEN Answered("webhook", SmartappPath,
                         http_exception_handler(400, JStr("Missing pingData.challenge")), more)
                  ELSE Answered("webhook", SmartappPath,
                         JSONResponse(200, JDict([pingData |->
                                                    JDict([challenge |-> challenge])])), more)
             ELSE IF lifecycle = JStr("CONFIRMATION")
             THEN IF ~WebhookCallsBack(body)
                  THEN Answered("webhook", SmartappPath,
                         http_exception_handler(400,
                           JStr("Missing confirmationData.confirmationUrl")), more)
                  ELSE IF cr.kind = "transport"
                  THEN Answered("webhook", SmartappPath,
                         http_exception_handler(502,
                           JStr("Failed to call confirmationUrl: <error>")), more)
                  ELSE Answered("webhook", SmartappPath, JSONResponse(200, JDict(<<>>)), more)
             ELSE Answered("webhook", SmartappPath, JSONResponse(200, JDict(<<>>)), more)
        /\ UNCHANGED <<settings, users, tokens, now>>

----------------------------------------------------------------------------
(* src/app/routes/smartthings_oauth.py *)

AuthorizePath == <<"/oauth", "/smartthings", "/authorize">>

CallbackPath == <<"/oauth", "/smartthings", "/callback">>

DonePath == <<"/oauth", "/smartthings", "/done">>

\* what the caller asks for: the `format` query parameter and the chunks of
\* its Accept header, lower-cased
Requesters ==
    { [format |-> Some("json"), accept |-> <<"text/html">>],
      [format |-> None, accept |-> <<"application/json">>],
      [format |-> None, accept |-> <<"text/html", ",", "application/json">>],
      [format |-> None, accept |-> <<>>] }

_is_json_requested(rq) ==
    IF rq.format = Some("json") THEN TRUE
    ELSE IF Contains(rq.accept, "text/html") THEN FALSE
    ELSE Contains(rq.accept, "application/json")

\* _done_url(request, status, params): the landing page with its query
_done_url(status, params) == <<"done", status, params>>

\* GET /oauth/smartthings/authorize
authorize(key) ==
    LET gate == get_current_user(key)
        configured == Truthy(settings.smartthings_client_id)
                      /\ Truthy(settings.smartthings_redirect_uri)
        inner == IF ~gate.ok THEN http_exception_handler(gate.status, gate.detail)
                 ELSE IF ~configured
                 THEN http_exception_handler(500, JStr("SmartThings OAuth is not configured"))
                 ELSE RedirectResponse(<<"authorize",
                                         build_state(gate.user[1].id, StateTtl, "v")>>)
    IN  /\ ev = Idle
        /\ ev' = Answered("authorize", AuthorizePath, inner, [key |-> key, gate |-> gate.ok])
        /\ UNCHANGED <<settings, users, tokens, now>>

\* a store that adds the record whether or not the user has one
StoreToken_insert(row) == tokens \cup {row}

\* lines 190-208: the record of the user is updated in place when there is
\* one and added when there is none
StoreToken(row) == {t \in tokens : t.user_id # row.user_id} \cup {row}

\* the JSON error or the error redirect of callback, by what was asked for
CallbackError(rq, status, detail, code, message) ==
    IF _is_json_requested(rq) THEN http_exception_handler(status, detail)
    ELSE RedirectResponse(_done_url("error", [code |-> code, message |-> message]))

\* GET /oauth/smartthings/callback with the reply tr of the token endpoint.
\* q = [code, state, error, error_description], each None or a value.
\* The result: the response, the POSTs made and the tokens table committed.
callback_run(q, rq, tr) ==
    LET parsed == parse_state(q.state[1])
        user_id == parsed.payload.userId
        detail == IF tr.body[1] = "json" THEN tr.body[2]
                  ELSE IF tr.body[1] = "text" THEN JStr(tr.body[2]) ELSE JStr("")
        token_json == tr.body[2]
        access_token == Get(token_json, "access_token")
        expires_in == Get(token_json, "expires_in")
        row == StoredToken(user_id, access_token[2],
                   FieldOr(token_json, "refresh_token", ""),
                   FieldOr(token_json, "token_type", "Bearer"),
                   FieldOr(token_json, "scope", ""),
                   IF expires_in[1] = "num" /\ expires_in[2] > 0
                   THEN Some(now + expires_in[2]) ELSE None)
        Out(resp, posts, db) == [crash |-> "", resp |-> resp, posts |-> posts, db |-> db]
    IN  IF ~Truthy(settings.smartthings_client_id)
           \/ ~Truthy(settings.smartthings_client_secret)
           \/ ~Truthy(settings.smartthings_redirect_uri)
        THEN Out(http_exception_handler(500, JStr("SmartThings OAuth is not configured")),
                 0, tokens)
        ELSE IF Truthy(q.error)
        THEN Out(IF _is_json_requested(rq)
                 THEN http_exception_handler(400,
                        JDict([error |-> JStr(q.error[1]),
                               error_description |->
                                   JStr(IF Truthy(q.error_description)
                                        THEN q.error_description[1] ELSE "")]))
                 ELSE RedirectResponse(_done_url("error",
                        [code |-> q.error[1],
                         message |-> IF Truthy(q.error_description)
                                     THEN q.error_description[1] ELSE ""])),
                 0, tokens)
        ELSE IF ~Truthy(q.code)
        THEN Out(CallbackError(rq, 400, JStr("Missing OAuth query parameter: code"),
                               "missing_code", "Missing OAuth code"), 0, tokens)
        ELSE IF q.state = None \/ q.state = Some(<<>>)
        THEN Out(CallbackError(rq, 400, JStr("Missing OAuth query parameter: state"),
                               "missing_state", "Missing OAuth state"), 0, tokens)
        ELSE IF ~parsed.ok
        THEN Out(CallbackError(rq, 400, JStr("Invalid state: <error>"),
                               "invalid_state", parsed.error), 0, tokens)
        ELSE IF tr.kind = "transport"
        THEN Out(CallbackError(rq, 502,
                               JStr("Failed to reach SmartThings token endpoint: <error>"),
                               "token_endpoint_unreachable", "ConnectionError"), 1, tokens)
        ELSE IF tr.status < 200 \/ tr.status >= 300
        THEN Out(IF _is_json_requested(rq) THEN http_exception_handler(tr.status, detail)
                 ELSE RedirectResponse(_done_url("error",
                        [code |-> "token_exchange_failed", upstreamStatus |-> tr.status,
                         message |-> IF detail[1] = "str" THEN detail[2] ELSE ""])),
                 1, tokens)
        ELSE IF tr.body[1] # "json"
        THEN [crash |-> "ValueError", resp |-> NotFoundResponse, posts |-> 1, db |-> tokens]
        ELSE IF ~IsDict(token_json)
        THEN [crash |-> "AttributeError", resp |-> NotFoundResponse, posts |-> 1, db |-> tokens]
        ELSE IF ~JTruthy(access_token)
        THEN Out(CallbackError(rq, 500, JStr("Token response missing access_token"),
                               "missing_access_token", "No access_token"), 1, tokens)
        ELSE Out(IF _is_json_requested(rq)
                 THEN JSONResponse(200, JDict([userId |-> JStr(user_id),
                                               stored |-> <<"bool", TRUE>>]))
                 ELSE RedirectResponse(_done_url("ok",
                        [userId |-> user_id, stored |-> "true"])),
                 1, StoreToken(row))

callback(q, rq, tr) ==
    LET r == callback_run(q, rq, tr)
        more == [q |-> q, rq |-> rq, tr |-> tr, posts |-> r.posts,
                 overwrote |-> (tokens \ r.db # {})]
    IN  /\ ev = Idle
        /\ tokens' = r.db
        /\ ev' = IF r.crash # "" THEN Crashed("callback", CallbackPath, r.crash, more)
                 ELSE Answered("callback", CallbackPath, r.resp, more)
        /\ UNCHANGED <<settings, users, now>>

\* GET /oauth/smartthings/done: `status` is a required query parameter
done(status) ==
    /\ ev = Idle
    /\ ev' = Answered("done", DonePath,
               IF status = None
               THEN validation_exception_handler(<<"list", 1>>)
               ELSE HTMLResponse(200, IF status = Some("ok") THEN "<html>OK</html>"
                                      ELSE "<html>ERROR</html>"),
               [status |-> status])
    /\ UNCHANGED <<settings, users, tokens, now>>

\* the states a caller can present: issued by authorize for a user (now, or
\* long enough ago to have expired), or made up without the secret
IssuedStates == { build_state(u.id, StateTtl, "v") : u \in users }

ExpiredStates ==
    { << <<"b64", [userId |-> u.id, exp |-> 0 - 30, pkceVerifier |-> "v"]>>,
         _sign(<<"b64", [userId |-> u.id, exp |-> 0 - 30, pkceVerifier |-> "v"]>>) >> :
        u \in {InitUser} \cap users }

ForgedStates ==
    { << <<"b64", [userId |-> "u1", exp |-> StateTtl, pkceVerifier |-> "v"]>>,
         <<"hmac", "guess", <<"b64", [userId |-> "u1", exp |-> StateTtl,
                                     pkceVerifier |-> "v"]>> >> >>,
      << <<"b64", [userId |-> "u1", exp |-> StateTtl, pkceVerifier |-> "v"]>> >> }

CallbackQueries ==
    { [code |-> None, state |-> None, error |-> Some("access_denied"),
       error_description |-> None],
      [code |-> None, state |-> None, error |-> None, error_description |-> None],
      [code |-> Some("c"), state |-> None, error |-> None, error_description |-> None] }
    \cup { [code |-> Some("c"), state |-> Some(st), error |-> None,
            error_description |-> None] :
             st \in IssuedStates \cup ExpiredStates \cup ForgedStates }

CallbackReplies ==
    { TransportFailure,
      TokenJson([access_token |-> JStr("A1"), refresh_token |-> JStr("R1"),
                 scope |-> JStr("s1"), expires_in |-> JNum(120)]),
      TokenJson([access_token |-> JStr("A1")]),
      TokenJson([refresh_token |-> JStr("R1")]),
      HttpReply(200, <<"text", "not json">>),
      HttpReply(400, <<"json", JDict([error |-> JStr("invalid_grant")])>>),
      HttpReply(500, <<"text", "down">>) }

\* the token endpoint is asked only when the dependency posts to it
RefreshRepliesFor(h) ==
    IF get_current_user(h.x_api_key).ok /\ get_smartthings_client(h, TransportFailure).posts > 0
    THEN RefreshReplies ELSE {NoReply}

Next ==
    \/ Tick
    \/ Deliver
    \/ \E email \in Emails : signup(email)
    \/ \E k \in ApiKeys : me(k)
    \/ health
    \/ \E k \in ApiKeys : authorize(k)
    \/ \E status \in {None, Some("ok"), Some("error")} : done(status)
    \/ /\ ev = Idle
       /\ \E q \in CallbackQueries, rq \in Requesters :
            \E tr \in (IF callback_run(q, rq, TransportFailure).posts > 0
                        THEN CallbackReplies ELSE {NoReply}) :
              callback(q, rq, tr)
    \/ /\ ev = Idle
       /\ \E body \in WebhookBodies :
            \E cr \in (IF WebhookCallsBack(body) THEN ConfirmationReplies ELSE {NoReply}) :
              smartapp_webhook(body, cr)
    \/ \E path \in FrameworkPaths : FrameworkRoute(path)
    \/ /\ ev = Idle
       /\ \E a \in AuthHeaders, x \in XstHeaders, k \in ApiKeys :
            \E rr \in RefreshRepliesFor(Headers(a, x, k)) :
              ResolveClient(Headers(a, x, k), rr)
    \/ \E ur \in DeviceReplies : list_devices(ur)

Spec == Init /\ [][Next]_vars

----------------------------------------------------------------------------
(* Properties of credential resolution (src/app/deps.py)                   *)

\* a request whose credential resolution ran: the API-key gate let it through
Resolving == "hdr" \in DOMAIN ev /\ ev.gate

\* the token of a non-empty `Authorization: Bearer <token>` header, or None
BearerToken(h) ==
    IF /\ h.authorization # None
       /\ Len(h.authorization[1]) = 3
       /\ Lower(h.authorization[1][1]) = "bearer"
       /\ Strip(h.authorization[1][3]) # ""
    THEN Some(Strip(h.authorization[1][3])) ELSE None

\* the first applicable source of the four, for headers h and the stored
\* token st0 of the user the API key resolves to
FirstSource(h, st0) ==
    IF BearerToken(h) # None THEN "bearer"
    ELSE IF h.x_smartthings_token # None /\ h.x_smartthings_token[1] # "" THEN "header"
    ELSE IF st0 # None /\ st0[1].access_token # "" THEN "stored"
    ELSE IF settings.smartthings_token # None /\ settings.smartthings_token[1] # ""
    THEN "static"
    ELSE "none"

\* the stored token is inside the refresh window of 60 seconds
InWindow(st) == st.expires_at # None /\ now >= st.expires_at[1] - 60

\* the `data` member of the enveloped body of the response
DataOf(r) == r.body[2][2]["data"]

\* C1: credential resolution takes the token from the first applicable source
\* in the order Bearer header, X-SmartThings-Token header, stored token of the
\* API key's user, static token, and fails with 400 "Missing SmartThings
\* token..." when none applies; a Bearer token wins over a stored token.
CredentialPriority ==
    Resolving =>
      LET src == FirstSource(ev.hdr, ev.st0)
      IN  /\ src = "bearer" =>
                ev.out.kind = "client" /\ Some(ev.out.token) = BearerToken(ev.hdr)
          /\ src = "header" =>
                ev.out.kind = "client" /\ Some(ev.out.token) = ev.hdr.x_smartthings_token
          /\ src = "stored" =>
                IF ev.out.kind = "client"
                THEN /\ ev.out.token = StoredTokenOf(ev.hdr.x_api_key)[1].access_token
                     /\ ev.out.posts = 0 => ev.out.token = ev.st0[1].access_token
                ELSE ev.out.status \in {401, 502}
          /\ src = "static" =>
                ev.out.kind = "client" /\ Some(ev.out.token) = settings.smartthings_token
          /\ src = "none" =>
                /\ ev.out.kind = "HTTPException" /\ ev.out.status = 400
                /\ ev.resp.status = 400
                /\ ev.resp.body = <<"json", Envelope(400,
                     "Missing SmartThings token. Provide Authorization: Bearer <PAT>, or bind via OAuth (SaaS), or set SMARTTHINGS_TOKEN.",
                     JNull)>>

\* C1 happens: `Authorization: Bearer A` with a valid API key whose user has
\* the stored token A1, and the client is built on A
BearerWinsOverStored ==
    /\ Resolving
    /\ ev.hdr.authorization = Some(<<"Bearer", " ", "A">>)
    /\ ev.st0 # None /\ ev.st0[1].access_token = "A1"
    /\ ev.out.kind = "client" /\ ev.out.token = "A"

\* the stored token path was taken with a non-empty refresh_token
StoredWithRefreshToken ==
    /\ Resolving
    /\ FirstSource(ev.hdr, ev.st0) = "stored"
    /\ ev.st0[1].refresh_token # ""

\* C2 as stated: with a non-empty refresh_token, exactly one refresh call
\* when the stored token is inside the window, none otherwise
OneRefreshWhenDue ==
    StoredWithRefreshToken =>
        ev.out.posts = IF InWindow(ev.st0[1]) THEN 1 ELSE 0

\* the OAuth client id and secret the refresh call is made with are configured
RefreshConfigured ==
    /\ settings.smartthings_client_id # None /\ settings.smartthings_client_id[1] # ""
    /\ settings.smartthings_client_secret # None /\ settings.smartthings_client_secret[1] # ""

\* C2 amended: with a non-empty refresh_token, exactly one refresh call when
\* the stored token is inside the window and the OAuth client id and secret
\* are configured; none when it is outside the window; none, and a 502
\* failure, when it is inside and they are not configured; never more than one.
OneRefreshWhenDueAndConfigured ==
    /\ StoredWithRefreshToken =>
         /\ ev.out.posts = IF InWindow(ev.st0[1]) /\ RefreshConfigured THEN 1 ELSE 0
         /\ (InWindow(ev.st0[1]) /\ ~RefreshConfigured) =>
                ev.out.kind = "HTTPException" /\ ev.out.status = 502
         /\ ~InWindow(ev.st0[1]) =>
                ev.out.kind = "client" /\ ev.out.token = ev.st0[1].access_token
    /\ Resolving => ev.out.posts <= 1

\* C2 happens: a token that entered the window exactly (now = expires_at - 60)
\* was refreshed with one call
RefreshedAtWindowEdge ==
    /\ StoredWithRefreshToken
    /\ ev.st0[1].expires_at = Some(now + 60)
    /\ ev.out.posts = 1 /\ ev.out.kind = "client"

\* C3: a stored token inside the refresh window with an empty refresh_token
\* fails with 401 and data.reason = "missing_refresh_token", and the token
\* endpoint is not called.
MissingRefreshToken ==
    ( /\ Resolving
      /\ FirstSource(ev.hdr, ev.st0) = "stored"
      /\ InWindow(ev.st0[1])
      /\ ev.st0[1].refresh_token = "" )
    => /\ ev.out.kind = "HTTPException" /\ ev.out.status = 401
       /\ ev.out.posts = 0 /\ ev.rr = NoReply
       /\ ev.resp.status = 401
       /\ DataOf(ev.resp) = JDict([reason |-> JStr("missing_refresh_token")])
       /\ StoredTokenOf(ev.hdr.x_api_key) = ev.st0

\* C3 happens: such a request was answered 401
MissingRefreshTokenAnswered ==
    /\ Resolving
    /\ FirstSource(ev.hdr, ev.st0) = "stored"
    /\ InWindow(ev.st0[1]) /\ ev.st0[1].refresh_token = ""
    /\ ev.op = "device" /\ ev.resp.status = 401

\* a refresh that succeeded: one call was made and a client was returned
RefreshSucceeded == Resolving /\ ev.out.posts = 1 /\ ev.out.kind = "client"

\* a member of the refresh response that supplies a value
Supplied(k) == JTruthy(Get(ev.rr.body[2], k))

\* the stored record of the request's user, as committed
Committed == StoredTokenOf(ev.hdr.x_api_key)[1]

\* refresh_token, token_type, scope and expires_at after a successful refresh:
\* each overwritten only when supplied
OtherFieldsRefreshed ==
    /\ Committed.refresh_token =
         IF Supplied("refresh_token") THEN Get(ev.rr.body[2], "refresh_token")[2]
         ELSE ev.st0[1].refresh_token
    /\ Committed.token_type =
         IF Supplied("token_type") THEN Get(ev.rr.body[2], "token_type")[2]
         ELSE ev.st0[1].token_type
    /\ Committed.scope =
         IF Supplied("scope") THEN Get(ev.rr.body[2], "scope")[2]
         ELSE ev.st0[1].scope
    /\ Committed.expires_at =
         IF Supplied("expires_in") THEN Some(now + Get(ev.rr.body[2], "expires_in")[2])
         ELSE ev.st0[1].expires_at
    /\ Committed.user_id = ev.st0[1].user_id
    /\ ev.out.token = Committed.access_token

\* C4 as stated: after a successful refresh the stored access_token is the
\* access_token of the refresh response, the other fields are overwritten
\* only when supplied, the record is committed and the client uses it
RefreshOverwritesAccessToken ==
    RefreshSucceeded =>
        /\ JStr(Committed.access_token) = Get(ev.rr.body[2], "access_token")
        /\ OtherFieldsRefreshed

\* C4 amended: after a successful refresh access_token, like the other
\* fields, is overwritten only when the response supplies a value, and is
\* otherwise left as it was; the record is committed before the client is
\* returned, and the client uses the committed access_token.
RefreshOverwritesSupplied ==
    RefreshSucceeded =>
        /\ Committed.access_token =
             IF Supplied("access_token") THEN Get(ev.rr.body[2], "access_token")[2]
             ELSE ev.st0[1].access_token
        /\ OtherFieldsRefreshed

\* C4 happens: a response that rotates nothing but the access token was
\* stored and used
RefreshedAccessTokenOnly ==
    /\ RefreshSucceeded
    /\ ev.rr = TokenJson([access_token |-> JStr("A2")])
    /\ ev.st0[1].access_token = "A1"
    /\ Committed.access_token = "A2" /\ ev.out.token = "A2"
    /\ Committed.refresh_token = ev.st0[1].refresh_token

\* the upstream status and body as the failure's data carries them
UpstreamData(rr) ==
    JDict([upstream_status |-> JNum(rr.status),
           upstream |-> IF rr.body[1] = "json" THEN rr.body[2]
                        ELSE IF rr.body[1] = "text" THEN JStr(rr.body[2]) ELSE JStr("")])

\* C5 as stated: a refresh call that fails makes the request fail with 401
\* and the upstream status and body on a 4xx, with 502 "token endpoint
\* error" and the upstream status and body on any other non-2xx status, with
\* 502 and the error text on a transport failure; no client is returned.
RefreshFailureMapped ==
    ( /\ Resolving /\ ev.out.posts = 1
      /\ \/ ev.rr.kind = "transport"
         \/ ev.rr.kind = "http" /\ ~(200 <= ev.rr.status /\ ev.rr.status < 300) )
    => /\ ev.out.kind = "HTTPException"
       /\ ev.op = "device"
       /\ IF ev.rr.kind = "transport"
          THEN /\ ev.resp.status = 502
               /\ HasKey(DataOf(ev.resp), "error")
          ELSE IF 400 <= ev.rr.status /\ ev.rr.status < 500
          THEN /\ ev.resp.status = 401
               /\ ev.resp.body[2][2]["msg"] =
                    JStr("Failed to refresh SmartThings token. User must re-authorize.")
               /\ DataOf(ev.resp) = UpstreamData(ev.rr)
          ELSE /\ ev.resp.status = 502
               /\ ev.resp.body[2][2]["msg"] =
                    JStr("SmartThings token endpoint error while refreshing token.")
               /\ DataOf(ev.resp) = UpstreamData(ev.rr)

----------------------------------------------------------------------------
(* Properties of upstream failures                                         *)

\* a device-API call was made and answered with a status outside 2xx
DeviceCallRefused ==
    /\ ev.op = "device" /\ ev.calls = 1
    /\ ev.ur.kind = "http"
    /\ ~(200 <= ev.ur.status /\ ev.ur.status < 300)

\* C6: a device-API call answered with a non-2xx status S gives the caller
\* HTTP status S and the body {code: S, msg: "SmartThings API error (S)",
\* data: D}, D being the upstream body parsed as JSON or {raw: <text>}.
UpstreamStatusPropagated ==
    DeviceCallRefused =>
        /\ ev.resp.status = ev.ur.status
        /\ ev.resp.body =
             <<"json", Envelope(ev.ur.status, ApiErrorMsg(ev.ur.status),
                         IF ev.ur.body[1] = "json" THEN ev.ur.body[2]
                         ELSE IF ev.ur.body[1] = "text"
                         THEN JDict([raw |-> JStr(ev.ur.body[2])])
                         ELSE JDict([raw |-> JStr("")]))>>
        /\ ev.ur.status = 422 =>
             ev.resp.body[2][2]["msg"] = JStr("SmartThings API error (422)")

\* C6 happens: upstream 422 {"error": "bad capability"} reached the caller
BadCapabilityPropagated ==
    /\ DeviceCallRefused
    /\ ev.ur = HttpReply(422, <<"json", JDict([error |-> JStr("bad capability")])>>)
    /\ ev.resp.status = 422
    /\ ev.resp.body = <<"json", Envelope(422, "SmartThings API error (422)",
                                  JDict([error |-> JStr("bad capability")]))>>

\* an outbound call of the request in flight failed at the transport level
DeviceTransportFailed == ev.op = "device" /\ ev.calls = 1 /\ ev.ur.kind = "transport"

RefreshTransportFailed ==
    ev.op = "device" /\ Resolving /\ ev.out.posts = 1 /\ ev.rr.kind = "transport"

WebhookTransportFailed == ev.op = "webhook" /\ ev.gets = 1 /\ ev.cr.kind = "transport"

ExchangeTransportFailed == ev.op = "callback" /\ ev.posts = 1 /\ ev.tr.kind = "transport"

\* the caller of callback asked for JSON: format=json, or an Accept header
\* that names application/json and not text/html
AskedForJson(rq) ==
    \/ rq.format = Some("json")
    \/ /\ \E i \in 1..Len(rq.accept) : rq.accept[i] = "application/json"
       /\ \A i \in 1..Len(rq.accept) : rq.accept[i] # "text/html"

\* C7 as stated: every transport failure of an outbound call (device call,
\* token exchange in the callback, token refresh, webhook confirmation GET)
\* is answered 502
TransportFailureIs502 ==
    (DeviceTransportFailed \/ RefreshTransportFailed \/ WebhookTransportFailed
       \/ ExchangeTransportFailed)
    => ev.resp.status = 502

\* C7 amended: a transport failure of a device call, of the token refresh
\* and of the webhook confirmation GET is answered 502; one of the token
\* exchange in the callback is answered 502 when the caller asked for JSON,
\* and otherwise 302 to the landing page with status=error and
\* code=token_endpoint_unreachable.
TransportFailureIs502OrRedirect ==
    /\ (DeviceTransportFailed \/ RefreshTransportFailed \/ WebhookTransportFailed)
         => ev.resp.status = 502 /\ ev.resp.body[2][2]["code"] = JNum(502)
    /\ ExchangeTransportFailed =>
         IF AskedForJson(ev.rq)
         THEN ev.resp.status = 502 /\ ev.resp.body[2][2]["code"] = JNum(502)
         ELSE /\ ev.resp.status = 302
              /\ ev.resp.loc[1] = "done" /\ ev.resp.loc[2] = "error"
              /\ ev.resp.loc[3].code = "token_endpoint_unreachable"

\* C7 happens: the token endpoint was unreachable for a browser's callback,
\* which was redirected to the landing page
ExchangeFailureRedirected ==
    /\ ExchangeTransportFailed
    /\ ~AskedForJson(ev.rq)
    /\ ev.resp.status = 302

----------------------------------------------------------------------------
(* Properties of the envelope layer (src/app/envelope.py)                  *)

\* the request in flight passed through EnvelopeMiddleware.dispatch
Enveloping == ev.op # "idle" /\ ev.op # "client" /\ ev.via = "envelope"

\* the path starts with one of the excluded prefixes
ExcludedPath(path) ==
    \/ path[1] \in {"/docs", "/redoc", "/openapi.json"}
    \/ Len(path) >= 2 /\ path[1] = "/smartthings" /\ path[2] = "/smartapp"

\* the response of the application carries a JSON body
JsonResponse(r) ==
    /\ \E i \in 1..Len(r.ctype) : r.ctype[i] = "application/json"
    /\ r.body[1] = "json"

\* a body that has the three keys code, msg and data
EnvelopeShaped(v) == v[1] = "dict" /\ {"code", "msg", "data"} \subseteq DOMAIN v[2]

\* C8: a JSON response on a non-excluded path whose body is not envelope-shaped
\* comes back as {code: 200, msg: "", data: body} when its status is below
\* 400 and as {code: status, msg: "Request failed", data: body} otherwise,
\* with the HTTP status unchanged.
EnvelopeShaping ==
    ( /\ Enveloping
      /\ ~ExcludedPath(ev.path)
      /\ JsonResponse(ev.inner)
      /\ ~EnvelopeShaped(ev.inner.body[2]) )
    => /\ ev.resp.status = ev.inner.status
       /\ ev.resp.body =
            IF ev.inner.status < 400
            THEN <<"json", JDict([code |-> JNum(200), msg |-> JStr(""),
                                  data |-> ev.inner.body[2]])>>
            ELSE <<"json", JDict([code |-> JNum(ev.inner.status),
                                  msg |-> JStr("Request failed"),
                                  data |-> ev.inner.body[2]])>>

\* C8 happens: the 404 of an unknown path, which no handler of the
\* application shaped, was wrapped as a failure
NotFoundWrapped ==
    /\ Enveloping /\ ev.op = "framework" /\ ev.path = <<"/nope">>
    /\ ev.inner.body = <<"json", JDict([detail |-> JStr("Not Found")])>>
    /\ ev.resp.status = 404
    /\ ev.resp.body = <<"json", Envelope(404, "Request failed",
                                  JDict([detail |-> JStr("Not Found")]))>>

\* the statuses the wrapping step is applied under
WrapStatuses == {200, 201, 301, 400, 404, 500}

\* C9: wrapping is idempotent: an envelope-shaped body is returned unchanged,
\* wrap(wrap(x)) = wrap(x) for every payload x and status, and the layer
\* applied to its own output changes nothing.
EnvelopeIdempotent ==
    /\ \A s \in WrapStatuses :
         Wrap(s, Envelope(200, "", JDict(<<>>))) = Envelope(200, "", JDict(<<>>))
    /\ (Enveloping /\ ev.inner.body[1] = "json") =>
         \A s \in WrapStatuses :
           /\ Wrap(s, Wrap(s, ev.inner.body[2])) = Wrap(s, ev.inner.body[2])
           /\ EnvelopeShaped(ev.inner.body[2]) => Wrap(s, ev.inner.body[2]) = ev.inner.body[2]
           /\ EnvelopeShaped(Wrap(s, ev.inner.body[2]))
    /\ Enveloping =>
         /\ dispatch(ev.path, ev.resp) = ev.resp
         /\ (JsonResponse(ev.inner) /\ EnvelopeShaped(ev.inner.body[2])) => ev.resp = ev.inner

\* C9 happens: an upstream body that was itself {code, msg, data} came back
\* from a device call and went through the layer as it was
EnvelopedBodyKept ==
    /\ Enveloping /\ ev.op = "device" /\ ev.calls = 1
    /\ ev.inner.status = 200
    /\ ev.inner.body = <<"json", Envelope(200, "", JDict([x |-> JNum(1)]))>>
    /\ ev.resp = ev.inner

\* C10: the layer leaves the response untouched when the path starts with an
\* excluded prefix, or the status is 301, 302, 303, 307, 308 or 204, or the
\* content type is not JSON.
EnvelopePassThrough ==
    ( /\ Enveloping
      /\ \/ ExcludedPath(ev.path)
         \/ ev.inner.status \in {301, 302, 303, 307, 308, 204}
         \/ \A i \in 1..Len(ev.inner.ctype) : ev.inner.ctype[i] # "application/json" )
    => ev.resp = ev.inner

\* C10 happens: the PING answer of the webhook, a JSON body that is no
\* envelope, left the excluded path as the handler wrote it
WebhookAnswerUntouched ==
    /\ Enveloping /\ ev.op = "webhook"
    /\ ev.inner.status = 200
    /\ ev.inner.body = <<"json", JDict([pingData |-> JDict([challenge |-> JStr("abc")])])>>
    /\ ev.resp = ev.inner

----------------------------------------------------------------------------
(* Properties of the webhook (src/app/routes/smartapp.py)                  *)

\* the webhook was posted a JSON object with this lifecycle
Lifecycle(name) ==
    /\ ev.op = "webhook"
    /\ ev.body[1] = "json" /\ ev.body[2][1] = "dict"
    /\ "lifecycle" \in DOMAIN ev.body[2][2]
    /\ ev.body[2][2]["lifecycle"] = JStr(name)

\* the member k of the member d of the posted object, JSON null when absent
Nested(d, k) ==
    IF d \in DOMAIN ev.body[2][2] /\ ev.body[2][2][d][1] = "dict"
       /\ k \in DOMAIN ev.body[2][2][d][2]
    THEN ev.body[2][2][d][2][k] ELSE JNull

\* C11: a PING with pingData.challenge = c is answered 200 with exactly
\* {pingData: {challenge: c}}, no code, msg or data key added; a PING without
\* pingData.challenge is answered 400.
PingEchoed ==
    Lifecycle("PING") =>
        IF Nested("pingData", "challenge") # JNull
        THEN /\ ev.resp.status = 200
             /\ ev.resp.body =
                  <<"json", JDict([pingData |->
                      JDict([challenge |-> Nested("pingData", "challenge")])])>>
             /\ DOMAIN ev.resp.body[2][2] = {"pingData"}
        ELSE ev.resp.status = 400

\* C11 happens: the challenge "abc" came back
PingAnswered ==
    /\ Lifecycle("PING")
    /\ Nested("pingData", "challenge") = JStr("abc")
    /\ ev.resp.status = 200
    /\ ev.resp.body = <<"json", JDict([pingData |-> JDict([challenge |-> JStr("abc")])])>>

\* C12: for a CONFIRMATION the GET to confirmationData.confirmationUrl is
\* made once, before the answer, which is 200 with an empty JSON object
\* whatever the URL replied, and 502 when the GET got no reply (a transport
\* failure); without the URL the answer is 400 and no GET is made.
ConfirmationCalledBack ==
    Lifecycle("CONFIRMATION") =>
        IF Nested("confirmationData", "confirmationUrl") # JNull
        THEN /\ ev.gets = 1
             /\ ev.cr.kind \in {"transport", "http"}
             /\ IF ev.cr.kind = "transport" THEN ev.resp.status = 502
                ELSE /\ ev.resp.status = 200
                     /\ ev.resp.body = <<"json", JDict(<<>>)>>
        ELSE /\ ev.gets = 0 /\ ev.cr = NoReply
             /\ ev.resp.status = 400

\* C12 happens: the URL was called, replied, and the answer is {}
ConfirmationAnswered ==
    /\ Lifecycle("CONFIRMATION")
    /\ ev.gets = 1 /\ ev.cr.kind = "http"
    /\ ev.resp.status = 200 /\ ev.resp.body = <<"json", JDict(<<>>)>>

----------------------------------------------------------------------------
(* Properties of users and the API-key gate                                *)

\* the users that have this email
WithEmail(us, email) == {u \in us : u.email = email}

\* a signup request is answered in this step
SignupStep ==
    (ev.op = "idle" /\ ev'.op = "signup") =>
        /\ IF WithEmail(users, ev'.email) = {}
           THEN /\ ev'.resp.status = 200
                /\ \E u \in users' :
                     /\ u \notin users /\ users' = users \cup {u}
                     /\ u.email = ev'.email
                     /\ DataOf(ev'.resp)[2]["userId"] = JStr(u.id)
                     /\ u.api_key_hash = hash_api_key(DataOf(ev'.resp)[2]["apiKey"][2])
           ELSE /\ ev'.resp.status = 409
                /\ users' = users
        /\ Cardinality(WithEmail(users', ev'.email)) = 1

\* C13: a signup with an email no User has creates one User and returns its
\* userId and the plaintext apiKey whose hash the User holds; a signup with
\* an email a User has is answered 409 and creates nothing; there is never a
\* second User with the email.
SignupOncePerEmail == [][SignupStep]_vars

\* C13 happens: b@x, which only a signup can have created, was signed up
\* again and refused
SecondSignupRefused ==
    /\ ev.op = "signup" /\ ev.email = "b@x"
    /\ ev.resp.status = 409
    /\ Cardinality(WithEmail(users, "b@x")) = 1

\* the presented key is the key of a User
ValidKey(key) ==
    key # None /\ key[1] # "" /\ \E u \in users : u.api_key_hash = hash_api_key(key[1])

\* the key presented with a request through the gate, None for other requests
GatedKey ==
    IF ev.op \in {"me", "authorize"} THEN <<ev.key>>
    ELSE IF "hdr" \in DOMAIN ev THEN <<ev.hdr.x_api_key>>
    ELSE <<>>

\* C14: the gate lets a request through exactly when its X-API-Key is the key
\* of a User, and then as that User; a request to a device route, /users/me
\* or authorize without such a key is answered 401, and it makes no call to
\* the token endpoint or the device API and changes no stored token, whatever
\* Authorization header it carries.
ApiKeyGate ==
    /\ GatedKey # <<>> =>
         /\ ev.gate = ValidKey(GatedKey[1])
         /\ ~ev.gate =>
              /\ ev.resp.status = 401
              /\ ev.resp.body[2][2]["code"] = JNum(401)
         /\ (~ev.gate /\ ev.op = "device") =>
              /\ ev.calls = 0 /\ ev.out.posts = 0
              /\ ev.rr = NoReply /\ ev.ur = NoReply
         /\ (ev.gate /\ ev.op = "me") =>
              \E u \in users :
                /\ u.api_key_hash = hash_api_key(ev.key[1])
                /\ DataOf(ev.resp) = JDict([userId |-> JStr(u.id), email |-> JStr(u.email)])
         /\ (ev.gate /\ ev.op = "authorize" /\ ev.resp.status = 302) =>
              \E u \in users :
                /\ u.api_key_hash = hash_api_key(ev.key[1])
                /\ ev.resp.loc[2][1][2].userId = u.id
    /\ (ev.op = "device" /\ ev.calls = 1) => ev.gate

\* C14 happens: a device request with `Authorization: Bearer A` and a key
\* no User has was answered 401 without a call
BearerWithoutKeyRefused ==
    /\ ev.op = "device" /\ "hdr" \in DOMAIN ev
    /\ ev.hdr.authorization = Some(<<"Bearer", " ", "A">>)
    /\ ev.hdr.x_api_key = Some("bad")
    /\ users # {}
    /\ ev.resp.status = 401 /\ ev.calls = 0

----------------------------------------------------------------------------
(* src/app/oauth_state.py on its own: a state is built, may be altered on   *)
(* its way, ages, and is parsed.  ev holds the state under way.             *)

Ttls == {0 - 1, 15, 900}

StateUsers == {"u1", "u2"}

\* what can happen to a state string between build_state and parse_state
Alterations == {"signature", "payload", "no_dot", "extra_dot", "other_secret", "empty"}

Alter(how, state) ==
    CASE how = "signature" -> <<state[1], <<"flip", state[2]>> >>
      [] how = "payload" -> << <<"b64", [state[1][2] EXCEPT !.userId = "u9"]>>, state[2] >>
      [] how = "no_dot" -> << <<"joined", state>> >>
      [] how = "extra_dot" -> <<state[1], state[2], "x">>
      [] how = "other_secret" -> <<state[1], <<"hmac", "guess", state[1]>> >>
      [] how = "empty" -> <<>>

StateInit ==
    /\ settings = MkSettings("dev", None, Some("cid"), Some("secret"), Some("https://gw/cb"))
    /\ users = {} /\ tokens = {}
    /\ now = 0
    /\ ev = Idle

BuildState(user_id, ttl_s) ==
    /\ ev.op \in {"idle", "parsed"}
    /\ ev' = [op |-> "state", state |-> build_state(user_id, ttl_s, "v"),
              user_id |-> user_id, ttl_s |-> ttl_s, built_at |-> now, altered |-> "no"]
    /\ UNCHANGED <<settings, users, tokens, now>>

AlterState(how) ==
    /\ ev.op = "state" /\ ev.altered = "no"
    /\ ev' = [ev EXCEPT !.state = Alter(how, ev.state), !.altered = how]
    /\ UNCHANGED <<settings, users, tokens, now>>

StateAges ==
    /\ ev.op = "state"
    /\ now + TickStep <= MaxNow
    /\ now' = now + TickStep
    /\ UNCHANGED <<settings, users, tokens, ev>>

ParseState ==
    /\ ev.op = "state"
    /\ ev' = [op |-> "parsed", state |-> ev.state, user_id |-> ev.user_id,
              ttl_s |-> ev.ttl_s, built_at |-> ev.built_at, altered |-> ev.altered,
              result |-> parse_state(ev.state)]
    /\ UNCHANGED <<settings, users, tokens, now>>

StateNext ==
    \/ \E u \in StateUsers, ttl \in Ttls : BuildState(u, ttl)
    \/ \E how \in Alterations : AlterState(how)
    \/ StateAges
    \/ ParseState

StateSpec == StateInit /\ [][StateNext]_vars

\* C15: a built state parsed no later than its expiry gives the userId it was
\* built for and exp = build time + ttl, which for a positive ttl is in the
\* future of the build; parse fails for a state whose signature or payload
\* segment was altered, for a string that is not <payload>.<signature>, and
\* for a correctly signed state whose exp is in the past (ttl = -1 at once).
StateRoundTrip ==
    ev.op = "parsed" =>
        /\ (ev.altered = "no" /\ now <= ev.built_at + ev.ttl_s) =>
             /\ ev.result.ok
             /\ ev.result.payload.userId = ev.user_id
             /\ ev.result.payload.exp = ev.built_at + ev.ttl_s
             /\ ev.ttl_s > 0 => ev.result.payload.exp > ev.built_at
        /\ (ev.altered = "no" /\ now > ev.built_at + ev.ttl_s) =>
             ~ev.result.ok /\ ev.result.error = "State expired"
        /\ ev.altered \in {"signature", "payload", "other_secret", "extra_dot"} =>
             ~ev.result.ok /\ ev.result.error = "Invalid state signature"
        /\ ev.altered \in {"no_dot", "empty"} =>
             ~ev.result.ok /\ ev.result.error = "Invalid state format"

\* C15 happens: a state built for u1 was parsed later, before its expiry
StateParsedLater ==
    /\ ev.op = "parsed" /\ ev.altered = "no"
    /\ ev.user_id = "u1" /\ ev.ttl_s = 900
    /\ now > ev.built_at
    /\ ev.result.ok /\ ev.result.payload.userId = "u1"

----------------------------------------------------------------------------
(* Properties of the OAuth callback (src/app/routes/smartthings_oauth.py)  *)

\* all three OAuth settings of the callback are configured
CallbackConfigured(s) ==
    /\ s.smartthings_client_id # None /\ s.smartthings_client_secret # None
    /\ s.smartthings_redirect_uri # None

\* the callback e succeeds: a code and a state signed for a user that has not
\* expired, and a 2xx token response with an access_token
CallbackSucceeds(e) ==
    /\ e.op = "callback"
    /\ CallbackConfigured(settings)
    /\ e.q.error = None /\ e.q.code # None /\ e.q.state # None
    /\ Len(e.q.state[1]) = 2
    /\ e.q.state[1][2] = <<"hmac", oauth_state_secret, e.q.state[1][1]>>
    /\ now <= e.q.state[1][1][2].exp
    /\ e.tr.kind = "http" /\ 200 <= e.tr.status /\ e.tr.status < 300
    /\ e.tr.body[1] = "json" /\ e.tr.body[2][1] = "dict"
    /\ "access_token" \in DOMAIN e.tr.body[2][2]
    /\ e.tr.body[2][2]["access_token"] # JStr("")

\* the text of member k of the token response of e, or the default d
TokenField(e, k, d) ==
    IF k \in DOMAIN e.tr.body[2][2] /\ e.tr.body[2][2][k] \notin {JNull, JStr("")}
    THEN e.tr.body[2][2][k][2] ELSE d

\* the record a successful callback e leaves for its user at time t
CallbackRecord(e, t) ==
    [user_id |-> e.q.state[1][1][2].userId,
     access_token |-> TokenField(e, "access_token", ""),
     refresh_token |-> TokenField(e, "refresh_token", ""),
     token_type |-> TokenField(e, "token_type", "Bearer"),
     scope |-> TokenField(e, "scope", ""),
     expires_at |-> IF "expires_in" \in DOMAIN e.tr.body[2][2]
                       /\ e.tr.body[2][2]["expires_in"][1] = "num"
                       /\ e.tr.body[2][2]["expires_in"][2] > 0
                    THEN <<t + e.tr.body[2][2]["expires_in"][2]>> ELSE <<>>]

\* a callback is answered in this step
CallbackStep ==
    (ev.op = "idle" /\ ev'.op = "callback") =>
        IF CallbackSucceeds(ev')
        THEN /\ tokens' = {t \in tokens : t.user_id # CallbackRecord(ev', now).user_id}
                            \cup {CallbackRecord(ev', now)}
             /\ Cardinality({t \in tokens' :
                               t.user_id = CallbackRecord(ev', now).user_id}) = 1
             /\ ev'.resp.status \in {200, 302}
        ELSE tokens' = tokens

\* C16: a successful callback for user u leaves exactly one stored token for
\* u, holding the values of the token response (access_token; refresh_token
\* or ""; token_type or "Bearer"; scope or ""; expires_at = now + expires_in,
\* or none); it is added when u had none and replaces u's record when u had
\* one; the records of other users, and every record on a failed callback,
\* stay as they were.
CallbackStoresOneToken == [][CallbackStep]_vars

\* C16 happens: a later callback for u1 overwrote the record u1 had
CallbackOverwroteRecord ==
    /\ CallbackSucceeds(ev)
    /\ ev.overwrote
    /\ ev.q.state[1][1][2].userId = "u1"
    /\ {t \in tokens : t.user_id = "u1"} = {CallbackRecord(ev, now)}

----------------------------------------------------------------------------
(* Properties of the liveness route (src/app/main.py, src/app/envelope.py) *)

\* C17, as stated: GET /health answers 200 with the body {"status": "ok"},
\* which the envelope layer leaves unwrapped.
HealthUnwrapped ==
    ev.op = "health" =>
        /\ ev.resp.status = 200
        /\ ev.resp.body = <<"json", JDict([status |-> JStr("ok")])>>

\* C17: GET /health answers 200 and the route returns {"status": "ok"}; the
\* path is on no exclusion list, so the envelope layer wraps it and the
\* caller receives {"code": 200, "msg": "", "data": {"status": "ok"}}.
HealthWrapped ==
    ev.op = "health" =>
        /\ ev.resp.status = 200
        /\ ev.inner.body = <<"json", JDict([status |-> JStr("ok")])>>
        /\ ev.resp.body = <<"json", Envelope(200, "", JDict([status |-> JStr("ok")]))>>
        /\ ~ \E p \in exclude_prefixes : StartsWith(ev.path, p)

\* C17 happens: /health was answered through the envelope layer
HealthAnswered ==
    /\ ev.op = "health" /\ ev.via = "envelope"
    /\ ev.path = HealthPath
    /\ is_enveloped(ev.resp.body[2])

----------------------------------------------------------------------------
(* Properties of http_exception_handler (src/app/main.py)                  *)

\* detail has the legacy shape, or part of it
LegacyShaped(detail) ==
    HasKey(detail, "message") \/ HasKey(detail, "details")

\* the structured detail the callback e raises when JSON was asked for: the
\* error parameters of the query, or the JSON object of a failed exchange
RaisedDetail(e) ==
    IF Truthy(e.q.error)
    THEN JDict([error |-> JStr(e.q.error[1]),
                error_description |-> JStr(IF Truthy(e.q.error_description)
                                           THEN e.q.error_description[1] ELSE "")])
    ELSE e.tr.body[2]

\* the callback e raised an HTTPException whose detail is a JSON object
RaisedStructured(e) ==
    /\ e.op = "callback" /\ e.via = "envelope"
    /\ CallbackConfigured(settings)
    /\ _is_json_requested(e.rq)
    /\ \/ Truthy(e.q.error)
       \/ /\ e.posts = 1 /\ e.tr.kind = "http"
          /\ (e.tr.status < 200 \/ e.tr.status >= 300)
          /\ e.tr.body[1] = "json" /\ IsDict(e.tr.body[2])

\* C18, as stated: an HTTPException with a structured detail is answered
\* with the detail's own code, msg and data when it is envelope-shaped, with
\* the remapped fields when it has the legacy shape, and in every other case
\* with the raw detail carried as data and the message 'Request failed'.
StructuredDetailCarried ==
    RaisedStructured(ev) =>
        LET detail == RaisedDetail(ev)
        IN  ev.resp.body[2] =
              IF is_enveloped(detail)
              THEN Envelope(IntOf(detail[2]["code"]), StrOf(detail[2]["msg"]),
                            detail[2]["data"])
              ELSE IF LegacyShaped(detail)
              THEN Envelope(IntOf(Get(detail, "code")), StrOf(Get(detail, "message")),
                            Get(detail, "details"))
              ELSE Envelope(ev.resp.status, "Request failed", detail)

\* what the handler answers in that last case: the detail is dropped
StructuredDetailDropped ==
    (RaisedStructured(ev) /\ ~is_enveloped(RaisedDetail(ev))
                          /\ ~LegacyShaped(RaisedDetail(ev))) =>
        ev.resp.body[2] = Envelope(ev.resp.status, "Request failed", JNull)

\* the callback answered error parameters to a caller that asked for JSON
ErrorParametersAnswered ==
    /\ RaisedStructured(ev) /\ Truthy(ev.q.error)
    /\ ev.resp.status = 400
    /\ DataOf(ev.resp) = JNull

----------------------------------------------------------------------------
(* Properties of missing OAuth configuration                               *)
(* (src/app/routes/smartthings_oauth.py, src/app/smartthings_oauth_client.py, *)
(*  src/app/deps.py)                                                        *)

\* the request needed OAuth client configuration that is missing: authorize
\* without client id or redirect URI, callback without one of the three, or
\* a refresh that is due without client id or secret
NeedsMissingConfig ==
    \/ /\ ev.op = "authorize" /\ ev.gate
       /\ ~(Truthy(settings.smartthings_client_id)
            /\ Truthy(settings.smartthings_redirect_uri))
    \/ /\ ev.op = "callback"
       /\ ~( /\ Truthy(settings.smartthings_client_id)
             /\ Truthy(settings.smartthings_client_secret)
             /\ Truthy(settings.smartthings_redirect_uri) )
    \/ /\ ev.op = "device"
       /\ StoredWithRefreshToken /\ InWindow(ev.st0[1])
       /\ ~RefreshConfigured

\* C19, as stated: whenever authorize, callback or the token refresh of
\* credential resolution needs OAuth client configuration that is missing,
\* the caller receives an Internal (500) error.
MissingConfigIs500 ==
    NeedsMissingConfig => ev.resp.status = 500

\* what the three operations answer: authorize and callback 500, the refresh
\* 502 with the message of a network failure
MissingConfigAnswers ==
    NeedsMissingConfig =>
        IF ev.op = "device"
        THEN /\ ev.resp.status = 502
             /\ ev.resp.body[2][2]["msg"] =
                  JStr("Failed to refresh SmartThings token due to network/unknown error.")
        ELSE /\ ev.resp.status = 500
             /\ ev.resp.body[2] =
                  Envelope(500, "SmartThings OAuth is not configured", JNull)

\* a refresh was due while the client secret was missing
RefreshWithoutConfig ==
    /\ NeedsMissingConfig /\ ev.op = "device"
    /\ ev.out.posts = 0

----------------------------------------------------------------------------
(* The writers of the two tables, statement by statement: the handlers are  *)
(* plain functions run on worker threads, each with a session of its own,   *)
(* so the lookup of one request and the commit of another interleave        *)
(* (src/app/routes/users.py, src/app/routes/smartthings_oauth.py,           *)
(*  src/app/deps.py, src/app/models.py)                                     *)

TableWorkers == {"w1", "w2"}

\* a worker between two requests; `last` is the status of its last answer.
\* After a refresh it committed, `existing` and `row` still hold the record it
\* had loaded and the record it flushed; ev.writer is the worker whose commit
\* to the token table came last
Resting(last) ==
    [pc |-> "rest", email |-> "", existing |-> None, row |-> None, last |-> last]

\* a constraint that lets every record in
TokenUserUnique_off(row) == TRUE

\* uq_smartthings_tokens_user_id: no second record for the user of row
TokenUserUnique(row) == \A t \in tokens : t.user_id # row.user_id

\* unique=True on users.email and users.api_key_hash
UsersUnique(user) ==
    \A u \in users : u.email # user.email /\ u.api_key_hash # user.api_key_hash

\* an UPDATE that leaves alone a record another session has changed
Flush_first_wins(current, loaded, changed) ==
    IF current # loaded THEN current
    ELSE [f \in DOMAIN current |-> IF changed[f] # loaded[f] THEN changed[f] ELSE current[f]]

\* the UPDATE a session flushes for a loaded record: the columns whose value
\* was changed from the loaded one are written over the record as it is now
Flush(current, loaded, changed) ==
    [f \in DOMAIN current |-> IF changed[f] # loaded[f] THEN changed[f] ELSE current[f]]

\* the record of user uid as the table holds it now
RowOf(uid) == CHOOSE t \in tokens : t.user_id = uid

\* the token responses the table writers see
TableCallbackReplies ==
    { TokenJson([access_token |-> JStr("A1"), refresh_token |-> JStr("R1"),
                 expires_in |-> JNum(30)]),
      TokenJson([access_token |-> JStr("A3")]) }

TableRefreshReplies ==
    { TransportFailure,
      TokenJson([access_token |-> JStr("A2"), expires_in |-> JNum(120)]),
      TokenJson([access_token |-> JStr("A4"), refresh_token |-> JStr("R2"),
                 expires_in |-> JNum(90)]) }

TableInit ==
    /\ settings = MkSettings("dev", None, Some("cid"), Some("secret"), Some("https://gw/cb"))
    /\ users = {InitUser} /\ tokens = {}
    /\ now = 0
    /\ ev = [op |-> "tables", writer |-> "", w |-> [x \in TableWorkers |-> Resting(0)]]

\* signup, line 23-25: the lookup by email
signup_lookup(w, email) ==
    /\ ev.w[w].pc = "rest"
    /\ ev' = [ev EXCEPT !.w[w] =
                IF WithEmail(users, email) # {} THEN Resting(409)
                ELSE [Resting(0) EXCEPT !.pc = "signup", !.email = email]]
    /\ UNCHANGED <<settings, users, tokens, now>>

\* signup, lines 27-32: the insert and its commit; a record the constraints
\* refuse raises IntegrityError, which is answered 500
signup_commit(w) ==
    LET uid == FreshUserId
        user == [id |-> uid, email |-> ev.w[w].email,
                 api_key_hash |-> hash_api_key(KeyOf(uid))]
    IN  /\ ev.w[w].pc = "signup"
        /\ IF UsersUnique(user)
           THEN users' = users \cup {user} /\ ev' = [ev EXCEPT !.w[w] = Resting(200)]
           ELSE users' = users /\ ev' = [ev EXCEPT !.w[w] = Resting(500)]
        /\ UNCHANGED <<settings, tokens, now>>

\* callback, lines 182-190: the record to store for the user of the state,
\* and the lookup of the record the user has
callback_select(w, user_id, tr) ==
    LET token_json == tr.body[2]
        expires_in == Get(token_json, "expires_in")
        row == StoredToken(user_id, Get(token_json, "access_token")[2],
                   FieldOr(token_json, "refresh_token", ""),
                   FieldOr(token_json, "token_type", "Bearer"),
                   FieldOr(token_json, "scope", ""),
                   IF expires_in[1] = "num" /\ expires_in[2] > 0
                   THEN Some(now + expires_in[2]) ELSE None)
    IN  /\ ev.w[w].pc = "rest"
        /\ ev' = [ev EXCEPT !.w[w] =
                    [Resting(0) EXCEPT !.pc = "callback", !.row = Some(row),
                        !.existing = OneOrNone({t \in tokens : t.user_id = user_id})]]
        /\ UNCHANGED <<settings, users, tokens, now>>

\* callback, lines 191-208: the loaded record is updated, or a new one is
\* inserted, and the session commits
callback_commit(w) ==
    LET row == ev.w[w].row[1]
        existing == ev.w[w].existing
    IN  /\ ev.w[w].pc = "callback"
        /\ IF existing # None
           THEN /\ tokens' = (tokens \ {RowOf(row.user_id)})
                               \cup {Flush(RowOf(row.user_id), existing[1], row)}
                /\ ev' = [ev EXCEPT !.w[w] = Resting(200), !.writer = w]
           ELSE IF TokenUserUnique(row)
           THEN /\ tokens' = tokens \cup {row}
                /\ ev' = [ev EXCEPT !.w[w] = Resting(200), !.writer = w]
           ELSE tokens' = tokens /\ ev' = [ev EXCEPT !.w[w] = Resting(500)]
        /\ UNCHANGED <<settings, users, now>>

\* get_smartthings_client, lines 56-75: the record of the user is loaded and
\* a refresh is due
refresh_select(w, user_id) ==
    LET st == OneOrNone({t \in tokens : t.user_id = user_id})
    IN  /\ ev.w[w].pc = "rest"
        /\ st # None /\ st[1].access_token # ""
        /\ RefreshDue(st[1]) /\ st[1].refresh_token # ""
        /\ ev' = [ev EXCEPT !.w[w] = [Resting(0) EXCEPT !.pc = "refresh", !.existing = st]]
        /\ UNCHANGED <<settings, users, tokens, now>>

\* get_smartthings_client, lines 76-126: the refresh call, and the commit of
\* the refreshed record when it succeeded
refresh_commit(w, rr) ==
    LET st == ev.w[w].existing[1]
        r == refresh_access_token(st.refresh_token, rr)
    IN  /\ ev.w[w].pc = "refresh"
        /\ IF r.exc = "none" /\ IsDict(r.value)
           THEN /\ tokens' = (tokens \ {RowOf(st.user_id)})
                               \cup {Flush(RowOf(st.user_id), st, Refreshed(st, r.value))}
                /\ ev' = [ev EXCEPT !.w[w] = [Resting(200) EXCEPT
                                                 !.existing = Some(st),
                                                 !.row = Some(Refreshed(st, r.value))],
                                     !.writer = w]
           ELSE /\ tokens' = tokens
                /\ ev' = [ev EXCEPT !.w[w] = Resting(502)]
        /\ UNCHANGED <<settings, users, now>>

TableNext ==
    \E w \in TableWorkers :
        \/ \E email \in Emails : signup_lookup(w, email)
        \/ signup_commit(w)
        \/ \E u \in users, tr \in TableCallbackReplies : callback_select(w, u.id, tr)
        \/ callback_commit(w)
        \/ \E u \in users : refresh_select(w, u.id)
        \/ \E rr \in TableRefreshReplies : refresh_commit(w, rr)

TableSpec == TableInit /\ [][TableNext]_vars

----------------------------------------------------------------------------
(* Invariants of the two tables (src/app/models.py)                        *)

\* C20: in every reachable state, whatever signups, callbacks and refreshes
\* led to it and however their statements interleaved, each User owns at
\* most one stored token, and no two Users share an email or an api_key_hash.
TablesUnique ==
    /\ \A t1, t2 \in tokens : t1.user_id = t2.user_id => t1 = t2
    /\ \A u1, u2 \in users :
         (u1.email = u2.email \/ u1.api_key_hash = u2.api_key_hash) => u1 = u2

\* C20 happens: two Users, each with a stored token, after one of two
\* concurrent writers was refused by a constraint
TwoUsersWithTokens ==
    /\ ev.op = "tables"
    /\ \E w \in TableWorkers : ev.w[w].last = 500
    /\ Cardinality(users) = 2
    /\ \A u \in users : \E t \in tokens : t.user_id = u.id

----------------------------------------------------------------------------
(* Properties of concurrent refreshes (src/app/deps.py, src/app/db.py)     *)

\* worker w commits a successful refresh in this step
RefreshCommits(w) ==
    /\ ev.w[w].pc = "refresh"
    /\ ev'.w[w].pc = "rest" /\ ev'.w[w].last = 200

\* the columns in which record a differs from record b
ColumnsChanged(a, b) == {f \in DOMAIN a : a[f] # b[f]}

\* at the commit of a refresh by w, every column w's refresh gave a new value
\* holds that value afterwards, whatever another request committed since w
\* loaded the record; the other columns and the other records stay as they
\* were; and when w's refresh changed every column the other commit had
\* changed, the record is exactly the one w wrote
LastCommitStep ==
    \A w \in TableWorkers :
        RefreshCommits(w) =>
            LET loaded == ev.w[w].existing[1]
                mine == ev'.w[w].row[1]
                before == RowOf(loaded.user_id)
                after == CHOOSE t \in tokens' : t.user_id = loaded.user_id
            IN  /\ \A f \in ColumnsChanged(mine, loaded) : after[f] = mine[f]
                /\ \A f \in DOMAIN after \ ColumnsChanged(mine, loaded) : after[f] = before[f]
                /\ tokens' \ {after} = tokens \ {before}
                /\ ColumnsChanged(before, loaded) \subseteq ColumnsChanged(mine, loaded)
                     => after = mine
                /\ ev'.writer = w

----------------------------------------------------------------------------
(* Callbacks one after the other, with the signed states that earlier       *)
(* callbacks accepted remembered beside the program's state                 *)
(* (src/app/routes/smartthings_oauth.py, src/app/oauth_state.py)            *)

ReplayInit ==
    /\ settings = MkSettings("dev", None, Some("cid"), Some("secret"), Some("https://gw/cb"))
    /\ users = {InitUser} /\ tokens = {}
    /\ now = 0
    /\ ev = [op |-> "replay", accepted |-> {}, presented |-> None,
             reused |-> FALSE, stored |-> FALSE, status |-> 0]

\* GET /oauth/smartthings/callback?code=c&state=<state>: callback keeps no
\* record of the states it has seen; `accepted` is kept here for the
\* properties only
callback_replay(state, rq, tr) ==
    LET q == [code |-> Some("c"), state |-> Some(state), error |-> None,
              error_description |-> None]
        r == callback_run(q, rq, tr)
        stored == r.crash = "" /\ r.posts = 1 /\ parse_state(state).ok
                  /\ tr.kind = "http" /\ 200 <= tr.status /\ tr.status < 300
                  /\ JTruthy(Get(tr.body[2], "access_token"))
    IN  /\ ev.op = "replay"
        /\ tokens' = r.db
        /\ ev' = [op |-> "replay",
                  accepted |-> IF stored THEN ev.accepted \cup {state} ELSE ev.accepted,
                  presented |-> Some(state),
                  reused |-> state \in ev.accepted,
                  stored |-> stored,
                  status |-> IF r.crash # "" THEN 500 ELSE r.resp.status]
        /\ UNCHANGED <<settings, users, now>>

\* time passes between two callbacks
ReplayTick ==
    /\ ev.op = "replay"
    /\ now + TickStep <= MaxNow
    /\ now' = now + TickStep
    /\ UNCHANGED <<settings, users, tokens, ev>>

ReplayNext ==
    \/ \E state \in IssuedStates \cup ExpiredStates \cup ev.accepted,
          rq \in Requesters, tr \in CallbackReplies : callback_replay(state, rq, tr)
    \/ ReplayTick

ReplaySpec == ReplayInit /\ [][ReplayNext]_vars

----------------------------------------------------------------------------
(* Properties of a signed state over its lifetime                           *)

\* C22, as stated: a signed state is consumed once: after one callback has
\* accepted it, a later callback presenting the same state is not accepted
\* and does not store tokens again.
StateConsumedOnce ==
    (ev.op = "replay" /\ ev.reused) => (~ev.stored /\ ev.status \notin {200, 302})

\* what callback does with a state it accepted before: the state is checked
\* for its signature and its expiry only, so it is accepted again whenever
\* the exchange succeeds
StateAcceptedAgain ==
    /\ ev.op = "replay" /\ ev.reused /\ ev.stored
    /\ ev.status \in {200, 302}
    /\ \E t \in tokens : t.user_id = ev.presented[1][1][2].userId

----------------------------------------------------------------------------
(* Properties of the order of steps inside the callback                     *)
(* (src/app/routes/smartthings_oauth.py)                                    *)

\* every check that comes before the token exchange passed for callback e:
\* configuration, no error parameter, code and state present, state signed
\* with the secret and not expired
ChecksPassed(e) ==
    /\ CallbackConfigured(settings)
    /\ ~Truthy(e.q.error)
    /\ Truthy(e.q.code)
    /\ e.q.state # None /\ Len(e.q.state[1]) = 2
    /\ e.q.state[1][2] = <<"hmac", oauth_state_secret, e.q.state[1][1]>>
    /\ ~(e.q.state[1][1][2].exp # 0 /\ now > e.q.state[1][1][2].exp)

\* the exchange of callback e answered 2xx with a non-empty access_token
ExchangeGaveToken(e) ==
    /\ e.tr.kind = "http" /\ 200 <= e.tr.status /\ e.tr.status < 300
    /\ e.tr.body[1] = "json" /\ IsDict(e.tr.body[2])
    /\ JTruthy(Get(e.tr.body[2], "access_token"))

\* a callback is answered in this step: one POST exactly when the checks
\* passed, a write only after a 2xx answer with an access_token, and only to
\* the record of the user of the state
CallbackOrderStep ==
    (ev.op = "idle" /\ ev'.op = "callback") =>
        /\ ev'.posts = (IF ChecksPassed(ev') THEN 1 ELSE 0)
        /\ ev'.posts = 0 => ev'.tr = NoReply
        /\ tokens' # tokens => (ev'.posts = 1 /\ ExchangeGaveToken(ev'))
        /\ ~(ChecksPassed(ev') /\ ExchangeGaveToken(ev')) =>
              /\ tokens' = tokens
              /\ \/ ev'.via = "server_error"
                 \/ ev'.resp.status >= 400
                 \/ (ev'.resp.status = 302 /\ ev'.resp.loc[2] = "error")
        /\ \A t \in (tokens' \ tokens) \cup (tokens \ tokens') :
              t.user_id = ev'.q.state[1][1][2].userId

\* C23: in the callback the token-exchange POST is made only after every
\* earlier check passed (configuration, no error parameter, code and state
\* present, state signature valid and unexpired); the token store is written
\* only after the exchange answered 2xx with a non-empty access_token; in
\* every other outcome the store is unchanged; and the record written is the
\* one of the userId carried in the validated state.
CallbackOrder == [][CallbackOrderStep]_vars

\* C23 happens: every check passed and the POST was made, the exchange gave
\* no token, and the store is still empty
ExchangeFailedNoWrite ==
    /\ ev.op = "callback"
    /\ ChecksPassed(ev) /\ ev.posts = 1
    /\ ~ExchangeGaveToken(ev)
    /\ users # {} /\ tokens = {}

----------------------------------------------------------------------------
(* Properties of the stored token after a refresh (src/app/deps.py,         *)
(* src/app/smartthings_oauth_client.py)                                     *)

\* the refresh call a request with the same headers would make now
NextRefreshCalls == get_smartthings_client(ev.hdr, TransportFailure).posts

\* C24, as stated: after a successful refresh the stored token is outside
\* the refresh window, so an immediately following request for the same user
\* makes no refresh call.
RefreshLeavesWindow ==
    RefreshSucceeded => (~InWindow(Committed) /\ NextRefreshCalls = 0)

\* C24: after a successful refresh whose token response carries a number
\* expires_in > 0, the stored token expires at now + expires_in: it is
\* outside the refresh window, and an immediately following request makes no
\* refresh call, exactly when expires_in > 60. When the response carries no
\* such expires_in the stored expires_at is kept, the token is still inside
\* the window and the following request refreshes again.
RefreshLeavesWindowByLifetime ==
    RefreshSucceeded =>
        LET expires_in == Get(ev.rr.body[2], "expires_in")
        IN  IF expires_in[1] = "num" /\ expires_in[2] > 0
            THEN /\ Committed.expires_at = Some(now + expires_in[2])
                 /\ InWindow(Committed) <=> expires_in[2] <= 60
                 /\ NextRefreshCalls = (IF expires_in[2] <= 60 THEN 1 ELSE 0)
            ELSE /\ Committed.expires_at = ev.st0[1].expires_at
                 /\ InWindow(Committed)
                 /\ NextRefreshCalls = 1

\* C24 happens: a refresh brought a lifetime of 120 seconds and the stored
\* token left the window
RefreshedOutOfWindow ==
    /\ RefreshSucceeded
    /\ Get(ev.rr.body[2], "expires_in") = JNum(120)
    /\ ev.st0[1].expires_at = Some(30)
    /\ Committed.expires_at = Some(now + 120)
    /\ NextRefreshCalls = 0

----------------------------------------------------------------------------
(* Properties of concurrent signups (src/app/routes/users.py,               *)
(* src/app/models.py)                                                       *)

\* worker w, whose lookup found no User with the email, commits in this
\* step: it creates the User when no other signup committed the email in
\* between, and is answered 409 when one did
ConcurrentSignupStep ==
    \A w \in TableWorkers :
        (ev.w[w].pc = "signup" /\ ev'.w[w].pc = "rest") =>
            IF WithEmail(users, ev.w[w].email) = {}
            THEN /\ Cardinality(WithEmail(users', ev.w[w].email)) = 1
                 /\ ev'.w[w].last = 200
            ELSE /\ users' = users
                 /\ ev'.w[w].last = 409

\* C25, as stated: of two signups with the same email that both made the
\* existence check before either committed, exactly one creates a User and
\* the other receives 409 Conflict, not any other error status.
ConcurrentSignupConflict == [][ConcurrentSignupStep]_vars

\* what the losing signup receives: its commit is refused by the unique
\* constraint on users.email, and the IntegrityError is answered 500
LosingSignupAnswered500 ==
    \E w \in TableWorkers :
        /\ ev.op = "tables" /\ ev.w[w].pc = "rest" /\ ev.w[w].last = 500
        /\ Cardinality(WithEmail(users, "b@x")) = 1
        /\ tokens = {}

----------------------------------------------------------------------------
(* The registered exception handlers alone, applied to the exceptions a     *)
(* route or a dependency can raise (src/app/main.py)                        *)

\* the status codes HTTPException is raised with
HandlerStatuses == {400, 401, 404, 409, 500, 502}

\* the details HTTPException is raised with: texts, envelope-shaped objects
\* (with the status as code, another number, a text of digits, a text that is
\* no number), legacy objects with and without a code, and other JSON, such
\* as the body of a failed token exchange
HandlerDetails ==
    { JStr("Missing X-API-Key"), JStr(""), <<"list", 0>>,
      Envelope(401, "Failed to refresh SmartThings token. User must re-authorize.",
               JDict([upstream_status |-> JNum(400)])),
      Envelope(7, "m", JNull),
      JDict([code |-> JStr("502"), msg |-> JStr("m"), data |-> JNull]),
      JDict([code |-> JStr("NotFound"), msg |-> JStr("m"), data |-> JNull]),
      JDict([code |-> JNum(7), message |-> JStr("m"), details |-> JStr("d")]),
      JDict([message |-> JStr("m"), details |-> JStr("d")]),
      JDict([error |-> JStr("invalid_grant")]),
      JDict([error |-> JStr("access_denied"), error_description |-> JStr("")]) }

\* the UpstreamHTTPError values _request raises
HandlerUpstreamErrors ==
    { _request(ur).exc : ur \in {r \in DeviceReplies : _request(r).raised} }

HandlerInit ==
    /\ settings \in SettingsSet
    /\ users = {} /\ tokens = {}
    /\ now = 0
    /\ ev = [op |-> "handler", kind |-> "none"]

RaiseUpstreamHTTPError(exc) ==
    /\ ev.op = "handler"
    /\ ev' = [op |-> "handler", kind |-> "upstream", status |-> exc.status_code,
              detail |-> exc.details, resp |-> upstream_http_error_handler(exc)]
    /\ UNCHANGED <<settings, users, tokens, now>>

RaiseHTTPException(status, detail) ==
    /\ ev.op = "handler"
    /\ ev' = [op |-> "handler", kind |-> "http", status |-> status,
              detail |-> detail, resp |-> http_exception_handler(status, detail)]
    /\ UNCHANGED <<settings, users, tokens, now>>

RaiseRequestValidationError(errors) ==
    /\ ev.op = "handler"
    /\ ev' = [op |-> "handler", kind |-> "validation", status |-> 422,
              detail |-> errors, resp |-> validation_exception_handler(errors)]
    /\ UNCHANGED <<settings, users, tokens, now>>

RaiseException(text) ==
    /\ ev.op = "handler"
    /\ ev' = [op |-> "handler", kind |-> "unhandled", status |-> 500,
              detail |-> JStr(text), resp |-> unhandled_exception_handler(text)]
    /\ UNCHANGED <<settings, users, tokens, now>>

HandlerNext ==
    \/ \E exc \in HandlerUpstreamErrors : RaiseUpstreamHTTPError(exc)
    \/ \E status \in HandlerStatuses, detail \in HandlerDetails :
          RaiseHTTPException(status, detail)
    \/ \E errors \in {<<"list", 1>>, <<"list", 2>>} : RaiseRequestValidationError(errors)
    \/ \E text \in {"ValueError", "IntegrityError"} : RaiseException(text)

HandlerSpec == HandlerInit /\ [][HandlerNext]_vars

----------------------------------------------------------------------------
(* Properties of the error responses (src/app/main.py)                      *)

\* an exception was handled
Handled == ev.op = "handler" /\ ev.kind # "none"

\* the body is a JSON object of exactly an integer code, a string msg and a
\* data member
ErrorShaped(r) ==
    /\ r.body[1] = "json" /\ IsDict(r.body[2])
    /\ DOMAIN r.body[2][2] = {"code", "msg", "data"}
    /\ r.body[2][2]["code"][1] = "num"
    /\ r.body[2][2]["msg"][1] = "str"

\* the HTTPException carried an object that names its own code
NamesCode == ev.kind = "http" /\ IsDict(ev.detail) /\ HasKey(ev.detail, "code")

\* C26, as stated: every error response of the registered handlers is a JSON
\* object with an integer code, a string msg and a data member, and its code
\* equals the HTTP status code of the response.
ErrorCodeIsStatus ==
    Handled => /\ ErrorShaped(ev.resp)
               /\ ev.resp.body[2][2]["code"] = JNum(ev.resp.status)

\* C26: every error response of the registered handlers is a JSON object
\* with an integer code, a string msg and a data member. Its code equals the
\* HTTP status of the response, except for an HTTPException whose detail is
\* an object naming a code: then the status is the one raised and the code is
\* int(detail code), whatever the status; and when that code is no integer
\* the handler itself fails and the response is 500 with code 500.
ErrorCodeIsStatusOrNamed ==
    Handled =>
        /\ ErrorShaped(ev.resp)
        /\ IF NamesCode /\ IntOk(ev.detail[2]["code"])
           THEN /\ ev.resp.status = ev.status
                /\ ev.resp.body[2][2]["code"] = JNum(IntOf(ev.detail[2]["code"]))
           ELSE IF NamesCode
           THEN /\ ev.resp.status = 500
                /\ ev.resp.body[2][2]["code"] = JNum(500)
           ELSE /\ ev.resp.status = ev.status
                /\ ev.resp.body[2][2]["code"] = JNum(ev.resp.status)

\* C26 happens: a detail naming the code 7 was raised with status 400
NamedCodeAnswered ==
    /\ Handled /\ NamesCode
    /\ ev.status = 400 /\ ev.detail = Envelope(7, "m", JNull)
    /\ ev.resp.status = 400
    /\ ev.resp.body[2] = Envelope(7, "m", JNull)

----------------------------------------------------------------------------
(* Frame properties of credential resolution (src/app/deps.py)              *)

\* credential resolution runs in this step: it changes the token table only
\* by a successful refresh of the record of the request's user, and calls
\* the token endpoint only when that record is inside the window with a
\* refresh_token
ResolutionFrameStep ==
    (ev.op = "idle" /\ "hdr" \in DOMAIN ev') =>
        LET e == ev'
            src == FirstSource(e.hdr, e.st0)
            due == src = "stored" /\ InWindow(e.st0[1]) /\ e.st0[1].refresh_token # ""
        IN  /\ e.out.posts \in {0, 1}
            /\ ~e.gate => (tokens' = tokens /\ e.out.posts = 0)
            /\ e.gate =>
                 /\ tokens' # tokens =>
                      /\ due /\ e.out.posts = 1 /\ e.out.kind = "client"
                      /\ tokens' \ tokens = {Refreshed(e.st0[1], e.rr.body[2])}
                      /\ tokens \ tokens' = {e.st0[1]}
                 /\ ~due => (tokens' = tokens /\ e.out.posts = 0 /\ e.rr = NoReply)
                 /\ e.out.kind = "HTTPException" => tokens' = tokens
                 /\ src = "none" => (e.out.kind = "HTTPException" /\ e.out.status = 400)

\* the device call that follows resolution leaves the token table alone
DeviceCallFrameStep == ev.op = "client" => tokens' = tokens

\* C27: credential resolution modifies the token store only by a successful
\* refresh: with a token from a request header, a stored token outside the
\* refresh window, a missing refresh_token, a failed refresh, the static
\* token, or a failure with 400, every stored record is left unchanged, and
\* except when the refresh failed no call to the token endpoint is made.
ResolutionFrame == [][ResolutionFrameStep /\ DeviceCallFrameStep]_vars

\* C27 happens: the refresh call was made and failed, and the record of the
\* user is the one the request loaded
RefreshFailedRecordKept ==
    /\ Resolving /\ ev.out.kind = "HTTPException" /\ ev.out.posts = 1
    /\ ev.st0 # None
    /\ StoredTokenOf(ev.hdr.x_api_key) = ev.st0
    /\ ev.st0[1] \in tokens

====
